---- MODULE Spec2Model ----
(***************************************************************************)
(* pipeline-debugger: the instance synthesizer (generator/generate.py,     *)
(* generator/mutations.py), the verification engine (verifier/verify.py)   *)
(* and the repairer's file tools (environments/pipeline_debugger.py).      *)
(*                                                                         *)
(* A workspace is an abstract file tree: the *.py files under tests/, the  *)
(* baseline file tests_hashes.json, expected_schema.json, the outputs/     *)
(* directory and the mutation sites of the project sources.  A path is a   *)
(* sequence of tokens (segment names and separators), so that the prefix   *)
(* test and the separator replacement of normalize_test_hashes are done on *)
(* the path itself.  A dict is a sequence of <<key, value>> items where    *)
(* Python iterates it in order, and a function where only equality is used.*)
(***************************************************************************)
EXTENDS Integers, Sequences, FiniteSets, TLC

VARIABLES
    ws,            \* the workspace (submission_dir) on disk
    pc,            \* position of the rollout / of verify_submission
    loc,           \* the locals of verify_submission
    result,        \* the VerificationResult returned (valid when pc = "done")
    trace,         \* the steps verify_submission has completed, in order
    writes,        \* writes made by the repairer and by code it controls
    shellUsed,     \* the repairer used the run_command tool
    testsAtStart,  \* the test files as they were when verify_submission began
    proc,          \* the CompletedProcess the last run_command call returned
    gen            \* generate_instances: its position, locals and output_dir

vars == <<ws, pc, loc, result, trace, writes, shellUsed, testsAtStart, proc, gen>>

---------------------------------------------------------------------------
(* Bounds of the model *)

\* writes to test files / baseline file by the repairer or its code
MaxWrites == 2
\* lines of a test-runner transcript
MaxLines == 2

---------------------------------------------------------------------------
(* Files and digests *)

NoFile == "none"

\* contents of a test source file: as synthesized, or edited
TestContents == {"orig", "tampered"}

\* contents of an output file
OutContents == {"rows", "rows_alt", "rejects", "empty_csv"}

\* sha256_file: a digest per content, distinct contents give distinct digests
Sha ==
    [orig |-> "e596b635", tampered |-> "d64dd4ba", rows |-> "7a11c0de",
     rows_alt |-> "91f3aa02", rejects |-> "3c5d9e77", empty_csv |-> "01ba4719"]

sha256_file(content) == Sha[content]

\* the *.py files that can exist under tests/, keyed relative to tests/,
\* in the order sorted(root.rglob(pattern)) yields them
P_top == <<"test_pipeline.py">>
P_nested == <<"tests", "/", "test_pipeline.py">>
SortedTestPaths == <<P_top, P_nested>>
TestPaths == {SortedTestPaths[i] : i \in DOMAIN SortedTestPaths}

RECURSIVE HashSeq(_, _, _)
HashSeq(paths, files, prefix) ==
    IF paths = <<>> THEN <<>>
    ELSE LET p == Head(paths)
             item == IF files[p] # NoFile
                     THEN << <<prefix \o p, sha256_file(files[p])>> >>
                     ELSE <<>>
         IN item \o HashSeq(Tail(paths), files, prefix)

\* verify.hash_files(test_dir, "*.py"): keys relative to the tests directory
hash_files(files) == HashSeq(SortedTestPaths, files, <<>>)

\* generate.hash_test_files(instance_dir): keys relative to the instance root
hash_test_files(files) == HashSeq(SortedTestPaths, files, <<"tests", "/">>)

EmptyDict == [k \in {} |-> ""]

dict_set(d, k, val) == [x \in (DOMAIN d) \cup {k} |-> IF x = k THEN val ELSE d[x]]

\* key = raw_path.replace("\\", "/"); strip a leading "tests/"
normalize_key(raw_path) ==
    LET key == [i \in 1..Len(raw_path) |->
                    IF raw_path[i] = "\\" THEN "/" ELSE raw_path[i]]
    IN IF Len(key) >= 2 /\ key[1] = "tests" /\ key[2] = "/"
       THEN SubSeq(key, 3, Len(key))
       ELSE key

RECURSIVE normalize_fold(_, _)
normalize_fold(items, normalized) ==
    IF items = <<>> THEN normalized
    ELSE normalize_fold(Tail(items),
             dict_set(normalized, normalize_key(Head(items)[1]), Head(items)[2]))

normalize_test_hashes(hashes) == normalize_fold(hashes, EmptyDict)

\* the outputs directory
NoOutputs == [exists |-> FALSE, files |-> EmptyDict]
OutDir(files) == [exists |-> TRUE, files |-> files]

hash_outputs(outputs) ==
    IF ~outputs.exists THEN EmptyDict
    ELSE [f \in DOMAIN outputs.files |-> sha256_file(outputs.files[f])]

\* tests_hashes.json
NoHashesFile == [kind |-> "absent", items |-> <<>>]
HashesFile(items) == [kind |-> "dict", items |-> items]
MalformedHashesFile == [kind |-> "malformed", items |-> <<>>]

---------------------------------------------------------------------------
(* Transcripts of the test runner *)

\* a line of `pytest --collect-only -q`: a test id (holds "::") or another line
CollectLines == {"id", "other"}
CollectStdouts == UNION {[1..n -> CollectLines] : n \in 0..MaxLines}

\* a line of `pytest -v`: n >= 0 when "(\d+)\s+passed" first matches n in it,
\* -1 when the pattern does not match the line
PytestLines == {-1, 0, 1, 2}
PytestStdouts == UNION {[1..n -> PytestLines] : n \in 0..MaxLines}

ExitCodes == {0, 1}

\* as collect_total_tests, the exit code of the collection pass ignored
collect_total_tests_any_exit(returncode, stdout) ==
    Cardinality({i \in DOMAIN stdout : stdout[i] = "id"})

\* collect_total_tests: 0 unless the collection pass exits 0, else the id lines
collect_total_tests(returncode, stdout) ==
    IF returncode # 0 THEN 0
    ELSE Cardinality({i \in DOMAIN stdout : stdout[i] = "id"})

\* parse_tests_passed: the first match of the pattern in the transcript, else 0
parse_tests_passed(pytest_output) ==
    LET hits == {i \in DOMAIN pytest_output : pytest_output[i] >= 0}
    IN IF hits = {} THEN 0
       ELSE pytest_output[CHOOSE i \in hits : \A j \in hits : i <= j]

---------------------------------------------------------------------------
(* Schema validation *)

\* expected_schema.json: "output_file" names outputs/fact_orders.csv
DeclaredOutput == "fact_orders.csv"

\* the violations pandas finds in a readable output file, by content
\* (column name/order, dtype, nullability, constraints), all accumulated
SchemaViolations ==
    [rows |-> <<>>,
     rows_alt |-> <<"column mismatch">>,
     rejects |-> <<"column mismatch", "missing column">>,
     empty_csv |-> <<>>]

validate_schema(w) ==
    IF w.schema = "absent"
    THEN [ok |-> FALSE, errors |-> <<"expected_schema.json is missing">>]
    ELSE IF w.schema = "no_output_file"
    THEN [ok |-> FALSE, errors |-> <<"expected_schema.json missing output_file">>]
    ELSE IF ~(w.outputs.exists /\ DeclaredOutput \in DOMAIN w.outputs.files)
    THEN [ok |-> FALSE, errors |-> <<"output file missing">>]
    ELSE IF w.outputs.files[DeclaredOutput] = "empty_csv"
    THEN [ok |-> FALSE, errors |-> <<"failed to read output file">>]
    ELSE LET errors == SchemaViolations[w.outputs.files[DeclaredOutput]]
         IN [ok |-> Len(errors) = 0, errors |-> errors]

---------------------------------------------------------------------------
(* Test-file integrity *)

\* as check_test_file_integrity, the before/after comparison left out of the verdict
check_test_file_integrity_baseline_only(hashes_file, pre_hashes, post_hashes) ==
    LET normalized_pre == normalize_test_hashes(pre_hashes)
        normalized_post == normalize_test_hashes(post_hashes)
        exists == hashes_file.kind # "absent"
        normalized_expected == normalize_test_hashes(hashes_file.items)
        unchanged_during_verifier == normalized_pre = normalized_post
        matches_expected == IF exists THEN normalized_pre = normalized_expected
                            ELSE TRUE
    IN [ok |-> matches_expected,
        has_expected |-> exists,
        expected_test_hashes |-> hashes_file.items,
        unchanged_during_verifier |-> unchanged_during_verifier,
        matches_expected |-> matches_expected]

check_test_file_integrity(hashes_file, pre_hashes, post_hashes) ==
    LET normalized_pre == normalize_test_hashes(pre_hashes)
        normalized_post == normalize_test_hashes(post_hashes)
        exists == hashes_file.kind # "absent"
        normalized_expected == normalize_test_hashes(hashes_file.items)
        unchanged_during_verifier == normalized_pre = normalized_post
        matches_expected == IF exists THEN normalized_pre = normalized_expected
                            ELSE TRUE
    IN [ok |-> unchanged_during_verifier /\ matches_expected,
        has_expected |-> exists,
        expected_test_hashes |-> hashes_file.items,
        unchanged_during_verifier |-> unchanged_during_verifier,
        matches_expected |-> matches_expected]

NoIntegrity ==
    [ok |-> FALSE, has_expected |-> FALSE, expected_test_hashes |-> <<>>,
     unchanged_during_verifier |-> FALSE, matches_expected |-> FALSE]

---------------------------------------------------------------------------
(* verify_submission *)

\* as verify_order, the after-hash taken before the test suite runs
verify_order_early_after_hash ==
    <<"hash_pre", "run1", "collect", "hash_post", "pytest", "schema", "run2">>

\* the statements of verify_submission, in program order
verify_order ==
    <<"hash_pre", "run1", "collect", "pytest", "hash_post", "schema", "run2">>

verify_next(p) ==
    LET i == CHOOSE k \in DOMAIN verify_order : verify_order[k] = p
    IN IF i = Len(verify_order) THEN "done" ELSE verify_order[i + 1]

LocInit ==
    [pre_test_hashes |-> <<>>, run1_exit |-> 0, run_pipeline_exit_zero |-> FALSE,
     tests_total |-> 0, pytest_exit |-> 0, tests_passed |-> 0,
     all_tests_pass |-> FALSE, post_test_hashes |-> <<>>,
     test_files_untouched |-> FALSE, integrity |-> NoIntegrity,
     schema_valid |-> FALSE, schema_errors |-> <<>>,
     outputs_hash_before |-> EmptyDict, run2_exit |-> 0,
     outputs_hash_after |-> EmptyDict]

NoResult == [passed |-> FALSE]

\* as deterministic_of, without the test that the first hash map is non-empty
deterministic_of_allows_empty(run2_exit, outputs_hash_before, outputs_hash_after) ==
    /\ run2_exit = 0
    /\ outputs_hash_before = outputs_hash_after

deterministic_of(run2_exit, outputs_hash_before, outputs_hash_after) ==
    /\ run2_exit = 0
    /\ outputs_hash_before # EmptyDict
    /\ outputs_hash_before = outputs_hash_after

\* as passed_of, the determinism check left out of the conjunction
passed_of_without_determinism(l, deterministic) ==
    /\ l.run_pipeline_exit_zero
    /\ l.all_tests_pass
    /\ l.test_files_untouched
    /\ l.schema_valid

passed_of(l, deterministic) ==
    /\ l.run_pipeline_exit_zero
    /\ l.all_tests_pass
    /\ l.test_files_untouched
    /\ l.schema_valid
    /\ deterministic

VerificationResult(l) ==
    LET deterministic ==
            deterministic_of(l.run2_exit, l.outputs_hash_before,
                             l.outputs_hash_after)
    IN [passed |-> passed_of(l, deterministic),
        run_pipeline_exit_zero |-> l.run_pipeline_exit_zero,
        tests_passed |-> l.tests_passed,
        tests_total |-> l.tests_total,
        schema_valid |-> l.schema_valid,
        deterministic |-> deterministic,
        test_files_untouched |-> l.test_files_untouched,
        details |->
            [run_pipeline_first_exit |-> l.run1_exit,
             pytest_exit |-> l.pytest_exit,
             run_pipeline_second_exit |-> l.run2_exit,
             schema_errors |-> l.schema_errors,
             outputs_hash_before |-> l.outputs_hash_before,
             outputs_hash_after |-> l.outputs_hash_after,
             all_tests_pass |-> l.all_tests_pass,
             pre_test_hashes |-> l.pre_test_hashes,
             post_test_hashes |-> l.post_test_hashes,
             has_expected |-> l.integrity.has_expected,
             expected_test_hashes |-> l.integrity.expected_test_hashes,
             unchanged_during_verifier |-> l.integrity.unchanged_during_verifier,
             matches_expected |-> l.integrity.matches_expected]]

\* run_command: what subprocess.run returns
CompletedProcess(returncode, stdout) == [returncode |-> returncode, stdout |-> stdout]
NoProcess == CompletedProcess(0, <<>>)

\* proc holds the transcript only where a specification keeps it
Kept(keep, completed) == IF keep THEN completed ELSE NoProcess

Step(p) ==
    /\ pc = p
    /\ pc' = verify_next(p)
    /\ trace' = Append(trace, p)

\* the effect of a spawned process on the workspace
Effect(w, fx) == [w EXCEPT !.tests = fx.tests, !.outputs = fx.outputs]

\* line 231
hash_pre ==
    /\ Step("hash_pre")
    /\ loc' = [loc EXCEPT !.pre_test_hashes = hash_files(ws.tests)]
    /\ testsAtStart' = ws.tests
    /\ UNCHANGED <<gen, ws, result, writes, shellUsed, proc>>

\* lines 233-234
run_pipeline_first(effects, keep) ==
    /\ Step("run1")
    /\ \E fx \in effects :
        /\ ws' = Effect(ws, fx)
        /\ writes' = writes + fx.wrote
        /\ proc' = Kept(keep, CompletedProcess(fx.exit, <<>>))
        /\ loc' = [loc EXCEPT !.run1_exit = fx.exit,
                              !.run_pipeline_exit_zero = (fx.exit = 0)]
    /\ UNCHANGED <<gen, result, shellUsed, testsAtStart>>

\* line 236
collect(transcripts, keep) ==
    /\ Step("collect")
    /\ \E out \in transcripts :
        /\ proc' = Kept(keep, CompletedProcess(out.exit, out.stdout))
        /\ loc' = [loc EXCEPT !.tests_total =
                                  collect_total_tests(out.exit, out.stdout)]
    /\ UNCHANGED <<gen, ws, result, writes, shellUsed, testsAtStart>>

\* lines 237-242
run_tests(effects, keep) ==
    /\ Step("pytest")
    /\ \E fx \in effects :
        LET tests_passed == parse_tests_passed(fx.stdout)
        IN /\ ws' = Effect(ws, fx)
           /\ writes' = writes + fx.wrote
           /\ proc' = Kept(keep, CompletedProcess(fx.exit, fx.stdout))
           /\ loc' = [loc EXCEPT
                        !.pytest_exit = fx.exit,
                        !.tests_passed = tests_passed,
                        !.all_tests_pass =
                            (fx.exit = 0 /\ tests_passed = loc.tests_total)]
    /\ UNCHANGED <<gen, result, shellUsed, testsAtStart>>

\* as after_check_test_file_integrity, tests_hashes.json written anew from
\* the test files found
after_check_regenerating_baseline(w) ==
    [w EXCEPT !.hashes = HashesFile(hash_test_files(w.tests))]

\* lines 198-222: check_test_file_integrity reads tests_hashes.json (207-208)
\* and writes no file
after_check_test_file_integrity(w) == w

\* lines 244-249; json.loads / .items() raise on a baseline that is no object
hash_post ==
    /\ pc = "hash_post"
    /\ trace' = Append(trace, "hash_post")
    /\ LET post_test_hashes == hash_files(ws.tests)
       IN IF ws.hashes.kind = "malformed"
          THEN /\ pc' = "raised"
               /\ loc' = [loc EXCEPT !.post_test_hashes = post_test_hashes]
          ELSE LET r == check_test_file_integrity(ws.hashes,
                            loc.pre_test_hashes, post_test_hashes)
               IN /\ pc' = verify_next("hash_post")
                  /\ loc' = [loc EXCEPT !.post_test_hashes = post_test_hashes,
                                        !.test_files_untouched = r.ok,
                                        !.integrity = r]
    /\ ws' = after_check_test_file_integrity(ws)
    /\ UNCHANGED <<gen, result, writes, shellUsed, testsAtStart, proc>>

\* line 251
schema_check ==
    /\ Step("schema")
    /\ LET r == validate_schema(ws)
       IN loc' = [loc EXCEPT !.schema_valid = r.ok, !.schema_errors = r.errors]
    /\ UNCHANGED <<gen, ws, result, writes, shellUsed, testsAtStart, proc>>

\* lines 253-306: the second run between the two output hashes, then the
\* verdict is formed and returned
run_pipeline_second(effects, keep) ==
    /\ Step("run2")
    /\ \E fx \in effects :
        /\ ws' = Effect(ws, fx)
        /\ writes' = writes + fx.wrote
        /\ proc' = Kept(keep, CompletedProcess(fx.exit, <<>>))
        /\ loc' = [loc EXCEPT
                     !.outputs_hash_before = hash_outputs(ws.outputs),
                     !.run2_exit = fx.exit,
                     !.outputs_hash_after = hash_outputs(fx.outputs)]
    /\ result' = VerificationResult(loc')
    /\ UNCHANGED <<gen, shellUsed, testsAtStart>>

\* the synthesizer is not running
GenIdle == [pc |-> "idle"]

---------------------------------------------------------------------------
(* The workspace handed to the repairer, and the repairer's tools *)

TestsRoot == <<"tests", "/">>
HashesPath == <<"tests_hashes.json">>

SynthesizedTests == (P_top :> "orig") @@ (P_nested :> NoFile)

\* an accepted instance as generate_instances leaves it: the baseline keyed
\* relative to the instance root, no outputs/ directory
Instance ==
    [tests |-> SynthesizedTests,
     hashes |-> HashesFile(hash_test_files(SynthesizedTests)),
     schema |-> "declared",
     outputs |-> NoOutputs,
     sites |-> {}]

\* PipelineDebuggerEnv.write_file: overwrite the file at a workspace path
write_file(w, path, content) ==
    IF path = HashesPath THEN [w EXCEPT !.hashes = content]
    ELSE [w EXCEPT !.tests[SubSeq(path, 3, Len(path))] = content]

WritablePaths == {HashesPath} \cup {TestsRoot \o p : p \in TestPaths}

\* what the repairer writes: a test source, or a baseline file that is the
\* re-hash of the current tests or is not a JSON object
ContentsFor(w, path) ==
    IF path = HashesPath
    THEN {HashesFile(hash_test_files(w.tests)), MalformedHashesFile}
    ELSE TestContents

repair_write_file ==
    /\ pc = "repair"
    /\ writes < MaxWrites
    /\ \E path \in WritablePaths :
         \E content \in ContentsFor(ws, path) :
            /\ ws' = write_file(ws, path, content)
            /\ ws' # ws
    /\ writes' = writes + 1
    /\ UNCHANGED <<gen, pc, loc, result, trace, shellUsed, testsAtStart, proc>>

\* PipelineDebuggerEnv.run_command: a shell command, here `rm tests_hashes.json`
repair_run_command ==
    /\ pc = "repair"
    /\ writes < MaxWrites
    /\ ws.hashes.kind # "absent"
    /\ ws' = [ws EXCEPT !.hashes = NoHashesFile]
    /\ writes' = writes + 1
    /\ shellUsed' = TRUE
    /\ UNCHANGED <<gen, pc, loc, result, trace, testsAtStart, proc>>

\* the rollout ends and the rubric calls verify_submission(workspace_root)
submit ==
    /\ pc = "repair"
    /\ pc' = verify_order[1]
    /\ UNCHANGED <<gen, ws, loc, result, trace, writes, shellUsed, testsAtStart,
                   proc>>

---------------------------------------------------------------------------
(* Spawned processes of a repaired workspace: the code is the repairer's, *)
(* so exit codes, transcripts and file effects are any of these           *)

AnyOutputs ==
    {NoOutputs,
     OutDir("fact_orders.csv" :> "rows"),
     OutDir("fact_orders.csv" :> "rows_alt"),
     OutDir(("fact_orders.csv" :> "rows") @@ ("rejected_rows.csv" :> "rejects"))}

PerturbedTests(w, budget) ==
    {w.tests} \cup
    (IF budget > 0
     THEN {write_file(w, TestsRoot \o p, c).tests : p \in TestPaths, c \in TestContents}
     ELSE {})

AnyPipelineRun(w, budget) ==
    {[exit |-> e, tests |-> t, outputs |-> o,
      wrote |-> IF t = w.tests THEN 0 ELSE 1] :
        e \in ExitCodes, t \in PerturbedTests(w, budget), o \in AnyOutputs}

AnyCollect == {[exit |-> e, stdout |-> s] : e \in ExitCodes, s \in CollectStdouts}

AnyTestRun(w, budget) ==
    {[exit |-> e, stdout |-> s, tests |-> t, outputs |-> o,
      wrote |-> IF t = w.tests THEN 0 ELSE 1] :
        e \in ExitCodes, s \in PytestStdouts,
        t \in PerturbedTests(w, budget), o \in {w.outputs, NoOutputs}}

---------------------------------------------------------------------------
(* Specification: a synthesized instance is repaired, then verified *)

Init ==
    /\ ws = Instance
    /\ pc = "repair"
    /\ loc = LocInit
    /\ result = NoResult
    /\ trace = <<>>
    /\ writes = 0
    /\ shellUsed = FALSE
    /\ testsAtStart = SynthesizedTests
    /\ proc = NoProcess
    /\ gen = GenIdle

Next ==
    \/ repair_write_file
    \/ repair_run_command
    \/ submit
    \/ hash_pre
    \/ run_pipeline_first(AnyPipelineRun(ws, MaxWrites - writes), FALSE)
    \/ collect(AnyCollect, FALSE)
    \/ run_tests(AnyTestRun(ws, MaxWrites - writes), FALSE)
    \/ hash_post
    \/ schema_check
    \/ run_pipeline_second(AnyPipelineRun(ws, MaxWrites - writes), FALSE)

Spec == Init /\ [][Next]_vars

---------------------------------------------------------------------------
(* Specification: verify_submission on a given workspace, the transcripts *)
(* of the spawned processes kept                                          *)

TamperedInstance == write_file(Instance, TestsRoot \o P_top, "tampered")

VerifyInputs ==
    {Instance, TamperedInstance, [Instance EXCEPT !.hashes = NoHashesFile]}

InitVerify ==
    /\ ws \in VerifyInputs
    /\ pc = "hash_pre"
    /\ loc = LocInit
    /\ result = NoResult
    /\ trace = <<>>
    /\ writes = MaxWrites
    /\ shellUsed = FALSE
    /\ testsAtStart = ws.tests
    /\ proc = NoProcess
    /\ gen = GenIdle

NextVerify ==
    \/ hash_pre
    \/ run_pipeline_first(AnyPipelineRun(ws, 0), TRUE)
    \/ collect(AnyCollect, TRUE)
    \/ run_tests(AnyTestRun(ws, 0), TRUE)
    \/ hash_post
    \/ schema_check
    \/ run_pipeline_second(AnyPipelineRun(ws, 0), TRUE)

SpecVerify == InitVerify /\ [][NextVerify]_vars

---------------------------------------------------------------------------
(* The synthesizer: generator/mutations.py and generator/generate.py *)

MaxInstances == 1

\* the catalog: each mutation's name, the file it edits, the text it looks
\* for and the text it puts there
Mutation(name, file_path, find_text, replace_text) ==
    [name |-> name, file_path |-> file_path,
     find_text |-> find_text, replace_text |-> replace_text]

MUTATIONS ==
    [schema_drift |->
        Mutation("schema_drift", "pipeline/transform.py",
                 "JOIN_KEY = \"customer_id\"", "JOIN_KEY = \"cust_id\""),
     type_coercion |->
        Mutation("type_coercion", "pipeline/transform.py",
                 "amount = float(raw[\"amount\"])",
                 "amount = int(float(raw[\"amount\"]))"),
     join_logic |->
        Mutation("join_logic", "pipeline/transform.py",
                 "merged = cleaned_df.merge(customers_df, how=JOIN_HOW, on=JOIN_KEY, sort=False)",
                 "merged = cleaned_df.merge(customers_df, how=JOIN_HOW, left_on=\"order_id\", right_on=\"customer_id\", sort=False)"),
     aggregation |->
        Mutation("aggregation", "pipeline/transform.py",
                 "merged[\"discount\"] = (merged[\"amount\"] * discount_rates).round(2)",
                 "merged[\"discount\"] = (merged[\"amount\"] * 0.01).round(2)"),
     ordering_dependency |->
        Mutation("ordering_dependency", "run_pipeline.py",
                 "EXECUTE_TRANSFORM_BEFORE_LOAD = True",
                 "EXECUTE_TRANSFORM_BEFORE_LOAD = False"),
     silent_data_loss |->
        Mutation("silent_data_loss", "pipeline/transform.py",
                 "DROP_VALID_ROWS_BELOW = None", "DROP_VALID_ROWS_BELOW = 300.0"),
     config_env |->
        Mutation("config_env", "pipeline/extract.py",
                 "ORDERS_DELIMITER = \",\"", "ORDERS_DELIMITER = \";\""),
     error_handling |->
        Mutation("error_handling", "pipeline/transform.py",
                 "CRASH_ON_BAD_ROW = False", "CRASH_ON_BAD_ROW = True"),
     wrong_output_path |->
        Mutation("wrong_output_path", "pipeline/load.py",
                 "OUTPUT_FILENAME = \"fact_orders.csv\"",
                 "OUTPUT_FILENAME = \"fact_orders_final.csv\"")]

\* sorted(MUTATIONS)
all_mutation_names ==
    <<"aggregation", "config_env", "error_handling", "join_logic",
      "ordering_dependency", "schema_drift", "silent_data_loss",
      "type_coercion", "wrong_output_path">>

\* as sorted_names, in descending order
sorted_names_descending(names) ==
    LET ascending == SelectSeq(all_mutation_names, LAMBDA n : n \in names)
    IN  [i \in 1..Len(ascending) |-> ascending[Len(ascending) + 1 - i]]

\* sorted(names) for a set of catalog names
sorted_names(names) == SelectSeq(all_mutation_names, LAMBDA n : n \in names)

\* the values rng.random() is drawn from, in hundredths, and the names
\* rng.sample is drawn from
Rolls == {0, 39, 40, 79, 80, 99}
SampledNames == {"config_env", "ordering_dependency", "wrong_output_path"}

choose_mutation_count(roll) ==
    IF roll < 40 THEN 1 ELSE IF roll < 80 THEN 2 ELSE 3

\* rng.sample(all_mutation_names, bug_count), as the set of names drawn
Samples(names, bug_count) ==
    {S \in SUBSET names : Cardinality(S) = bug_count}

\* apply_mutations: the mutation sites of the tree are edited one by one, in
\* the order given; a site whose find_text is gone stops the loop with a
\* ValueError, the edits made so far staying on disk
RECURSIVE apply_mutations(_, _, _)
apply_mutations(tree, mutation_names, applied) ==
    IF mutation_names = <<>> THEN [raised |-> FALSE, tree |-> tree, applied |-> applied]
    ELSE LET mutation == MUTATIONS[Head(mutation_names)]
         IN  IF mutation.name \in tree.sites
             THEN [raised |-> TRUE, tree |-> tree, applied |-> applied]
             ELSE apply_mutations([tree EXCEPT !.sites = @ \cup {mutation.name}],
                                  Tail(mutation_names),
                                  Append(applied, mutation))

\* the template project: the reference tests, no baseline, no mutation
TemplateDir ==
    [tests |-> SynthesizedTests,
     hashes |-> NoHashesFile,
     schema |-> "declared",
     outputs |-> NoOutputs,
     sites |-> {}]

NoMetadata == [instance_id |-> 0, attempt |-> 0, bugs |-> <<>>]
NoProbe == [returncode |-> 0, attempt |-> 0, sites |-> {}]

\* an entry of output_dir
NoDir == [state |-> "absent", tree |-> TemplateDir, metadata |-> NoMetadata,
          probe |-> NoProbe]
StaleDir == [NoDir EXCEPT !.state = "stale"]

max_attempts == 50

\* line 115: the probe's exit code decides
accepts_any_exit(returncode) == TRUE

accepts(returncode) == returncode # 0

\* line 63: the template's own test run decides whether synthesis starts
template_passes_any_exit(returncode) == TRUE

template_passes(returncode) == returncode = 0

\* line 80: range(1, max_attempts + 1) has a next attempt
attempts_left_one_more(attempt) == attempt <= max_attempts

attempts_left(attempt) == attempt < max_attempts

\* as accepted_dir, outputs/ left in the accepted instance
accepted_dir_keeps_outputs(probed, returncode, attempt) ==
    [probed EXCEPT
       !.state = "accepted",
       !.probe = [returncode |-> returncode, attempt |-> attempt,
                  sites |-> probed.tree.sites]]

\* lines 116-120: the instance directory an accepted attempt leaves
accepted_dir(probed, returncode, attempt) ==
    [probed EXCEPT
       !.state = "accepted",
       !.tree.outputs = NoOutputs,
       !.probe = [returncode |-> returncode, attempt |-> attempt,
                  sites |-> probed.tree.sites]]

\* as after_mismatch, the attempt made again
after_mismatch_retry == "attempt"

\* line 85: nothing catches the ValueError of apply_mutations
after_mismatch == "raised"

\* line 122: shutil.rmtree(instance_dir) after a probe that exited zero
rejected_dir_left(probed) == probed

rejected_dir(probed) == NoDir

\* the locals of generate_instances and output_dir; template_exit and chosen
\* remember the template run's exit code and the names drawn in the attempt
\* under way, rejected counts per index the attempts whose probe exited zero
GenStart(num_instances, disk) ==
    [pc |-> "template_check", num_instances |-> num_instances, index |-> 0,
     attempt |-> 0, template |-> TemplateDir, disk |-> disk, error |-> "",
     template_exit |-> 0, chosen |-> <<>>,
     rejected |-> [i \in DOMAIN disk |-> 0]]

verifierVars == <<ws, pc, loc, result, trace, writes, shellUsed, testsAtStart, proc>>

\* lines 59-71
template_check ==
    /\ gen.pc = "template_check"
    /\ \E returncode \in ExitCodes, outputs \in AnyOutputs :
         IF ~template_passes(returncode)
         THEN gen' = [gen EXCEPT !.pc = "raised", !.error = "template",
                                 !.template_exit = returncode,
                                 !.template.outputs = outputs]
         ELSE gen' = [gen EXCEPT !.pc = "next_index", !.index = 1,
                                 !.template_exit = returncode,
                                 !.template.outputs = NoOutputs]
    /\ UNCHANGED verifierVars

\* lines 73-79
next_index ==
    /\ gen.pc = "next_index"
    /\ IF gen.index > gen.num_instances
       THEN gen' = [gen EXCEPT !.pc = "returned"]
       ELSE gen' = [gen EXCEPT !.pc = "attempt", !.attempt = 1,
                               !.disk[gen.index] = NoDir]
    /\ UNCHANGED verifierVars

\* lines 81-112: clone, choose, mutate, snapshot, metadata
mutate(rolls, names) ==
    /\ gen.pc = "attempt"
    /\ \E roll \in rolls :
       \E sample \in Samples(names, choose_mutation_count(roll)) :
         LET chosen == sorted_names(sample)
             done == apply_mutations(gen.template, chosen, <<>>)
             tests_hashes == hash_test_files(done.tree.tests)
         IN  IF done.raised
             THEN gen' = [gen EXCEPT !.pc = after_mismatch, !.error = "mismatch",
                            !.chosen = chosen,
                            !.disk[gen.index] =
                                [NoDir EXCEPT !.state = "draft", !.tree = done.tree]]
             ELSE gen' = [gen EXCEPT !.pc = "probe",
                            !.chosen = chosen,
                            !.disk[gen.index] =
                                [state |-> "draft",
                                 tree |-> [done.tree EXCEPT
                                             !.hashes = HashesFile(tests_hashes)],
                                 metadata |->
                                     [instance_id |-> gen.index,
                                      attempt |-> gen.attempt,
                                      bugs |-> [i \in 1..Len(done.applied) |->
                                                  done.applied[i].name]],
                                 probe |-> NoProbe]]
    /\ UNCHANGED verifierVars

\* lines 114-127: the probe and what it decides
probe ==
    /\ gen.pc = "probe"
    /\ \E returncode \in ExitCodes, outputs \in AnyOutputs :
         LET dir == gen.disk[gen.index]
             probed == [dir EXCEPT !.tree.outputs = outputs]
         IN  IF accepts(returncode)
             THEN gen' = [gen EXCEPT
                            !.pc = "next_index",
                            !.index = @ + 1,
                            !.chosen = <<>>,
                            !.disk[gen.index] =
                                accepted_dir(probed, returncode, gen.attempt)]
             ELSE IF attempts_left(gen.attempt)
             THEN gen' = [gen EXCEPT !.pc = "attempt", !.attempt = @ + 1,
                                     !.chosen = <<>>,
                                     !.rejected[gen.index] = @ + 1,
                                     !.disk[gen.index] = rejected_dir(probed)]
             ELSE gen' = [gen EXCEPT !.pc = "raised", !.error = "exhausted",
                                     !.chosen = <<>>,
                                     !.rejected[gen.index] = @ + 1,
                                     !.disk[gen.index] = rejected_dir(probed)]
    /\ UNCHANGED verifierVars

InitGen ==
    /\ ws = Instance
    /\ pc = "idle"
    /\ loc = LocInit
    /\ result = NoResult
    /\ trace = <<>>
    /\ writes = 0
    /\ shellUsed = FALSE
    /\ testsAtStart = SynthesizedTests
    /\ proc = NoProcess
    /\ \E num_instances \in 0..MaxInstances :
       \E disk \in [1..MaxInstances -> {NoDir, StaleDir}] :
         gen = GenStart(num_instances, disk)

NextGen ==
    \/ template_check
    \/ next_index
    \/ mutate(Rolls, SampledNames)
    \/ probe

SpecGen == InitGen /\ [][NextGen]_vars

---------------------------------------------------------------------------
(* Specification: the retry loop over several instance indices, every *)
(* attempt drawing the same single mutation                           *)

MaxIndices == 2

InitGenRetry ==
    /\ ws = Instance
    /\ pc = "idle"
    /\ loc = LocInit
    /\ result = NoResult
    /\ trace = <<>>
    /\ writes = 0
    /\ shellUsed = FALSE
    /\ testsAtStart = SynthesizedTests
    /\ proc = NoProcess
    /\ \E num_instances \in 0..MaxIndices :
       \E disk \in [1..MaxIndices -> {NoDir, StaleDir}] :
         gen = GenStart(num_instances, disk)

NextGenRetry ==
    \/ template_check
    \/ next_index
    \/ mutate({0}, {"wrong_output_path"})
    \/ probe

SpecGenRetry == InitGenRetry /\ [][NextGenRetry]_vars

---------------------------------------------------------------------------
(* Specification: the retry loop on a template that has drifted from the *)
(* catalog, so that a find_text is missing from every clone              *)

InitGenDrift ==
    /\ ws = Instance
    /\ pc = "idle"
    /\ loc = LocInit
    /\ result = NoResult
    /\ trace = <<>>
    /\ writes = 0
    /\ shellUsed = FALSE
    /\ testsAtStart = SynthesizedTests
    /\ proc = NoProcess
    /\ \E num_instances \in 0..MaxIndices :
       \E disk \in [1..MaxIndices -> {NoDir, StaleDir}] :
         \* the template lacks the find_text of wrong_output_path
         gen = [GenStart(num_instances, disk) EXCEPT
                  !.template.sites = {"wrong_output_path"}]

NextGenDrift ==
    \/ template_check
    \/ next_index
    \/ mutate({0, 40}, {"config_env", "wrong_output_path"})
    \/ probe

SpecGenDrift == InitGenDrift /\ [][NextGenDrift]_vars

---------------------------------------------------------------------------
(* The reference project: run_pipeline.py, pipeline/load.py and          *)
(* tests/test_pipeline.py, run by verify_submission as they are written  *)

\* pipeline/load.py line 8, as the wrong_output_path mutation leaves it
OUTPUT_FILENAME_unmutated(sites) == "fact_orders.csv"

OUTPUT_FILENAME(sites) ==
    IF "wrong_output_path" \in sites THEN "fact_orders_final.csv"
    ELSE "fact_orders.csv"

REJECTED_FILENAME == "rejected_rows.csv"

\* run_pipeline.py line 10, as the ordering_dependency mutation leaves it
EXECUTE_TRANSFORM_BEFORE_LOAD(sites) == "ordering_dependency" \notin sites

\* the frames transform_orders returns on the reference data
transform_orders == [transformed_df |-> "rows", rejected_df |-> "rejects"]

\* pd.DataFrame(), which to_csv writes as a file read_csv cannot parse
EmptyDataFrame == "empty_csv"

\* as write_outputs, the rejected rows not written
write_outputs_without_rejected(transformed_df, rejected_df, outputs, sites) ==
    OutDir(dict_set(IF outputs.exists THEN outputs.files ELSE EmptyDict,
                    OUTPUT_FILENAME(sites), transformed_df))

\* write_outputs: mkdir(exist_ok), then the two files are (over)written
write_outputs(transformed_df, rejected_df, outputs, sites) ==
    OutDir(dict_set(dict_set(IF outputs.exists THEN outputs.files ELSE EmptyDict,
                             OUTPUT_FILENAME(sites), transformed_df),
                    REJECTED_FILENAME, rejected_df))

\* run_pipeline.py: the outputs directory it leaves; main returns 0
run_pipeline(w) ==
    LET frames == IF EXECUTE_TRANSFORM_BEFORE_LOAD(w.sites) THEN transform_orders
                  ELSE [transformed_df |-> EmptyDataFrame,
                        rejected_df |-> EmptyDataFrame]
    IN  write_outputs(frames.transformed_df, frames.rejected_df, w.outputs, w.sites)

\* python run_pipeline.py as verify_submission spawns it
RunPipelineProcess(w) ==
    {[exit |-> 0, tests |-> w.tests, outputs |-> run_pipeline(w), wrote |-> 0]}

\* tests/test_pipeline.py: run_pipeline() removes outputs/ and reruns
tests_run_pipeline(w) == run_pipeline([w EXCEPT !.outputs = NoOutputs])

\* the pipeline_outputs fixture: exit code 0, both files there and readable
pipeline_outputs(w) ==
    LET files == tests_run_pipeline(w).files
    IN  /\ "fact_orders.csv" \in DOMAIN files
        /\ "rejected_rows.csv" \in DOMAIN files
        /\ files["fact_orders.csv"] # EmptyDataFrame
        /\ files["rejected_rows.csv"] # EmptyDataFrame

\* the test functions in file order, and whether each passes
TestFunctions ==
    <<"test_run_pipeline_exit_code", "test_output_schema",
      "test_row_count_and_completeness", "test_transformation_logic",
      "test_error_handling_for_malformed_rows">>

test_passes(w, name) ==
    IF name = "test_run_pipeline_exit_code" THEN TRUE
    ELSE IF ~pipeline_outputs(w) THEN FALSE
    ELSE IF name = "test_error_handling_for_malformed_rows"
    THEN tests_run_pipeline(w).files["rejected_rows.csv"] = "rejects"
    ELSE tests_run_pipeline(w).files["fact_orders.csv"] = "rows"

\* pytest --collect-only -q tests: one id per test function, a blank line and
\* the summary line
CollectProcess(w) ==
    {[exit |-> 0,
      stdout |-> [i \in 1..Len(TestFunctions) |-> "id"] \o <<"other", "other">>]}

\* pytest tests -v: one line per test function (PASSED, FAILED or ERROR, no
\* count), then the summary, which counts the passed tests when there are any
PytestProcess(w) ==
    LET passed == Cardinality({i \in DOMAIN TestFunctions :
                                   test_passes(w, TestFunctions[i])})
    IN  {[exit |-> IF passed = Len(TestFunctions) THEN 0 ELSE 1,
          stdout |-> [i \in 1..Len(TestFunctions) |-> -1]
                         \o <<IF passed > 0 THEN passed ELSE -1>>,
          tests |-> w.tests,
          outputs |-> tests_run_pipeline(w),
          wrote |-> 0]}

\* outputs/ as an earlier run may have left it in the copied tree
StaleOutputs == AnyOutputs \cup {OutDir("fact_orders_final.csv" :> "rows")}

\* the baseline: tests/test_verifier.py write_test_hashes, generate.py
\* hash_test_files, or none
Baselines(tests) ==
    {HashesFile(hash_files(tests)), HashesFile(hash_test_files(tests)), NoHashesFile}

ReferenceMutations == {"wrong_output_path", "ordering_dependency"}

Candidates ==
    {[tests |-> SynthesizedTests, hashes |-> h, schema |-> "declared",
      outputs |-> o, sites |-> s] :
        h \in Baselines(SynthesizedTests), o \in StaleOutputs,
        s \in SUBSET ReferenceMutations}

InitE2E ==
    /\ ws \in Candidates
    /\ pc = "hash_pre"
    /\ loc = LocInit
    /\ result = NoResult
    /\ trace = <<>>
    /\ writes = 0
    /\ shellUsed = FALSE
    /\ testsAtStart = ws.tests
    /\ proc = NoProcess
    /\ gen = GenIdle

NextE2E ==
    \/ hash_pre
    \/ run_pipeline_first(RunPipelineProcess(ws), TRUE)
    \/ collect(CollectProcess(ws), TRUE)
    \/ run_tests(PytestProcess(ws), TRUE)
    \/ hash_post
    \/ schema_check
    \/ run_pipeline_second(RunPipelineProcess(ws), TRUE)

SpecE2E == InitE2E /\ [][NextE2E]_vars

---------------------------------------------------------------------------
(* Specification: verify_submission on a workspace whose spawned processes *)
(* may never exit                                                          *)

\* the calls of run_command in verify_submission
SpawnSteps == {"run1", "collect", "pytest", "run2"}

\* run_command: subprocess.run is given no timeout, so it returns what the
\* child returns when the child exits and does not return while it runs
run_command(step, w, completions) ==
    IF step \in w.hangs THEN {} ELSE completions

\* a workspace and the spawned processes that never exit in it
HangingWorkspaces ==
    {[tests |-> Instance.tests, hashes |-> Instance.hashes,
      schema |-> Instance.schema, outputs |-> o, sites |-> Instance.sites,
      hangs |-> h] : o \in AnyOutputs, h \in SUBSET SpawnSteps}

InitHang ==
    /\ ws \in HangingWorkspaces
    /\ pc = "hash_pre"
    /\ loc = LocInit
    /\ result = NoResult
    /\ trace = <<>>
    /\ writes = MaxWrites
    /\ shellUsed = FALSE
    /\ testsAtStart = ws.tests
    /\ proc = NoProcess
    /\ gen = GenIdle

NextHang ==
    \/ hash_pre
    \/ run_pipeline_first(run_command("run1", ws, AnyPipelineRun(ws, 0)), FALSE)
    \/ collect(run_command("collect", ws, AnyCollect), FALSE)
    \/ run_tests(run_command("pytest", ws, AnyTestRun(ws, 0)), FALSE)
    \/ hash_post
    \/ schema_check
    \/ run_pipeline_second(run_command("run2", ws, AnyPipelineRun(ws, 0)), FALSE)

\* the verifier is one sequential thread: a statement that can run does run
SpecHang == InitHang /\ [][NextHang]_vars /\ WF_vars(NextHang)

---------------------------------------------------------------------------
(* Specification: apply_mutations on the text of the files. A text is the *)
(* sequence of its statements; find_text occurs in it where a statement   *)
(* equals it                                                              *)

MaxTextLen == 3
MaxNames == 2

\* line 113: find_text in text
find_text_in_any(text, find_text) == TRUE

find_text_in(text, find_text) == \E i \in DOMAIN text : text[i] = find_text

\* as replace_first, every occurrence replaced
replace_every(text, find_text, replace_text) ==
    [i \in DOMAIN text |-> IF text[i] = find_text THEN replace_text ELSE text[i]]

\* line 117: text.replace(find_text, replace_text, 1)
replace_first(text, find_text, replace_text) ==
    LET occurrences == {i \in DOMAIN text : text[i] = find_text}
    IN  IF occurrences = {} THEN text
        ELSE LET first == CHOOSE i \in occurrences :
                            \A j \in occurrences : i =< j
             IN  [text EXCEPT ![first] = replace_text]

\* apply_mutations on the files of a tree: for each name in the order given,
\* read the target, raise if find_text is not in it, else write it back with
\* the first occurrence replaced and append the descriptor
RECURSIVE apply_mutations_to_files(_, _, _)
apply_mutations_to_files(files, mutation_names, applied) ==
    IF mutation_names = <<>>
    THEN [raised |-> FALSE, files |-> files, applied |-> applied]
    ELSE LET mutation == MUTATIONS[Head(mutation_names)]
             target == mutation.file_path
             text == files[target]
         IN  IF ~find_text_in(text, mutation.find_text)
             THEN [raised |-> TRUE, files |-> files, applied |-> applied]
             ELSE apply_mutations_to_files(
                      [files EXCEPT ![target] =
                          replace_first(text, mutation.find_text,
                                        mutation.replace_text)],
                      Tail(mutation_names),
                      Append(applied, mutation))

\* the names given to apply_mutations and the texts they meet
AppliedNames == {"schema_drift", "error_handling", "wrong_output_path"}

SeqsUpTo(S, n) == UNION {[1..k -> S] : k \in 0..n}

Statement == "import pandas as pd"

TransformTexts ==
    SeqsUpTo({MUTATIONS["schema_drift"].find_text,
              MUTATIONS["error_handling"].find_text, Statement}, MaxTextLen)

LoadTexts ==
    {<<MUTATIONS["wrong_output_path"].find_text>>,
     <<Statement, MUTATIONS["wrong_output_path"].find_text,
       MUTATIONS["wrong_output_path"].find_text>>,
     <<Statement>>}

\* files no mutation of AppliedNames targets, whatever they hold
RunnerTexts == {<<Statement>>, <<MUTATIONS["schema_drift"].find_text>>}

TreeFiles ==
    {[f \in {"pipeline/transform.py", "pipeline/load.py", "run_pipeline.py"} |->
        CASE f = "pipeline/transform.py" -> t
          [] f = "pipeline/load.py" -> l
          [] OTHER -> r] :
        t \in TransformTexts, l \in LoadTexts, r \in RunnerTexts}

\* one call of apply_mutations(instance_dir, mutation_names)
call_apply_mutations ==
    /\ gen.pc = "apply_call"
    /\ LET done == apply_mutations_to_files(gen.files, gen.mutation_names, <<>>)
       IN  gen' = [gen EXCEPT
                     !.pc = IF done.raised THEN "apply_raised" ELSE "apply_returned",
                     !.files = done.files,
                     !.applied = done.applied]
    /\ UNCHANGED verifierVars

InitApply ==
    /\ ws = Instance
    /\ pc = "idle"
    /\ loc = LocInit
    /\ result = NoResult
    /\ trace = <<>>
    /\ writes = 0
    /\ shellUsed = FALSE
    /\ testsAtStart = SynthesizedTests
    /\ proc = NoProcess
    /\ \E files \in TreeFiles :
       \E mutation_names \in SeqsUpTo(AppliedNames, MaxNames) :
         gen = [pc |-> "apply_call", files0 |-> files,
                mutation_names |-> mutation_names, files |-> files,
                applied |-> <<>>]

NextApply == call_apply_mutations

SpecApply == InitApply /\ [][NextApply]_vars

---------------------------------------------------------------------------
(* Specification: validate_schema on the schema file and the data frame   *)
(* read from the declared output                                          *)

MaxColumns == 2
MaxConstraints == 2

\* dtype_matches, on the dtype of the series
dtype_matches(series, expected) ==
    CASE expected = "int64" -> series.dtype = "int64"
      [] expected = "float64" -> series.dtype = "float64"
      [] expected = "bool" -> series.dtype = "bool"
      [] expected = "object" -> series.dtype = "object"
      [] OTHER -> series.dtype = expected

SchemaError(kind, column, expected, got) ==
    [kind |-> kind, column |-> column, expected |-> expected, got |-> got]

Returns(ok, errors) == [raised |-> FALSE, ok |-> ok, errors |-> errors]

Raises == [raised |-> TRUE, ok |-> FALSE, errors |-> <<>>]

\* as schema_missing, the check passing
schema_missing_passes == Returns(TRUE, <<>>)

\* line 124
schema_missing ==
    Returns(FALSE, <<SchemaError("expected_schema.json is missing", "", <<>>, <<>>)>>)

\* line 133
output_missing(output_file) ==
    Returns(FALSE, <<SchemaError("output file missing", output_file, <<>>, <<>>)>>)

column_names(columns) == [i \in DOMAIN columns |-> columns[i].name]

in_columns(name, df) == \E i \in DOMAIN df : df[i].name = name

series_of(name, df) == df[CHOOSE i \in DOMAIN df : df[i].name = name]

\* lines 140-146
column_mismatch_errors(expected_columns, df) ==
    IF column_names(df) # column_names(expected_columns)
    THEN <<SchemaError("column mismatch", "",
                       column_names(expected_columns), column_names(df))>>
    ELSE <<>>

\* lines 149-164, one turn of the loop
column_spec_errors(column_spec, df) ==
    IF ~in_columns(column_spec.name, df)
    THEN <<SchemaError("missing column", column_spec.name, <<>>, <<>>)>>
    ELSE LET series == series_of(column_spec.name, df)
         IN  (IF ~dtype_matches(series, column_spec.dtype)
              THEN <<SchemaError("dtype mismatch", column_spec.name,
                                 <<column_spec.dtype>>, <<series.dtype>>)>>
              ELSE <<>>)
             \o
             (IF ~column_spec.nullable /\ series.hasnull
              THEN <<SchemaError("nullability violation", column_spec.name,
                                 <<>>, <<>>)>>
              ELSE <<>>)

\* lines 148-164
RECURSIVE columns_errors(_, _)
columns_errors(expected_columns, df) ==
    IF expected_columns = <<>> THEN <<>>
    ELSE column_spec_errors(Head(expected_columns), df)
         \o columns_errors(Tail(expected_columns), df)

\* lines 173, 178: an ordering comparison of a series of strings with a float
\* raises TypeError
comparison_raises(constraint, df) ==
    /\ in_columns(constraint.column, df)
    /\ constraint.keys \cap {"min", "max"} # {}
    /\ series_of(constraint.column, df).dtype = "object"

\* lines 167-188, one turn of the loop on a constraint that does not raise
constraint_errors(constraint, df) ==
    IF ~in_columns(constraint.column, df) THEN <<>>
    ELSE LET series == series_of(constraint.column, df)
         IN  (IF "min" \in constraint.keys
                    /\ \E v \in series.values : v < constraint.min
              THEN <<SchemaError("constraint violation below", constraint.column,
                                 <<>>, <<>>)>>
              ELSE <<>>)
             \o
             (IF "max" \in constraint.keys
                    /\ \E v \in series.values : v > constraint.max
              THEN <<SchemaError("constraint violation above", constraint.column,
                                 <<>>, <<>>)>>
              ELSE <<>>)
             \o
             (IF "allowed_values" \in constraint.keys
                    /\ ~(series.values \subseteq constraint.allowed_values)
              THEN <<SchemaError("constraint violation unexpected values",
                                 constraint.column, <<>>, <<>>)>>
              ELSE <<>>)

\* lines 166-188
RECURSIVE constraints_errors(_, _)
constraints_errors(constraints, df) ==
    IF constraints = <<>> THEN <<>>
    ELSE constraint_errors(Head(constraints), df)
         \o constraints_errors(Tail(constraints), df)

\* validate_schema: schema is the content of expected_schema.json ("absent"
\* without the file), output what the declared output file holds
validate_schema_checks(schema, output) ==
    IF schema.kind = "absent" THEN schema_missing
    ELSE IF schema.kind = "malformed" THEN Raises
    ELSE IF schema.output_file = "" THEN
        Returns(FALSE, <<SchemaError("expected_schema.json missing output_file",
                                     "", <<>>, <<>>)>>)
    ELSE IF output.kind = "absent" THEN output_missing(schema.output_file)
    ELSE IF output.kind = "unreadable" THEN
        Returns(FALSE, <<SchemaError("failed to read output file", "", <<>>, <<>>)>>)
    ELSE IF \E k \in DOMAIN schema.constraints :
                comparison_raises(schema.constraints[k], output.df)
    THEN Raises
    ELSE LET errors == column_mismatch_errors(schema.columns, output.df)
                       \o columns_errors(schema.columns, output.df)
                       \o constraints_errors(schema.constraints, output.df)
         IN  Returns(Len(errors) = 0, errors)

\* the schema files and data frames validate_schema is called on
ColumnSpecs ==
    {[name |-> "order_id", dtype |-> "int64", nullable |-> FALSE],
     [name |-> "amount", dtype |-> "float64", nullable |-> FALSE],
     [name |-> "status", dtype |-> "object", nullable |-> TRUE]}

Constraints ==
    {[column |-> "amount", keys |-> {"min"}, min |-> 0, max |-> 0,
      allowed_values |-> {}],
     [column |-> "amount", keys |-> {"min", "max"}, min |-> 0, max |-> 3,
      allowed_values |-> {}],
     [column |-> "status", keys |-> {"allowed_values"}, min |-> 0, max |-> 0,
      allowed_values |-> {"paid"}]}

SeriesRead ==
    {[name |-> "amount", dtype |-> "float64", hasnull |-> FALSE, values |-> {0, 2}],
     [name |-> "amount", dtype |-> "float64", hasnull |-> TRUE, values |-> {-1, 5}],
     [name |-> "amount", dtype |-> "object", hasnull |-> FALSE, values |-> {"n/a"}],
     [name |-> "status", dtype |-> "object", hasnull |-> FALSE, values |-> {"paid"}],
     [name |-> "status", dtype |-> "object", hasnull |-> TRUE, values |-> {"bogus"}]}

\* read_csv gives every column a name of its own
DataFrames ==
    {df \in SeqsUpTo(SeriesRead, MaxColumns) :
        \A i, j \in DOMAIN df : df[i].name = df[j].name => i = j}

SchemaFiles ==
    {[kind |-> "absent"], [kind |-> "malformed"]}
    \cup {[kind |-> "json", output_file |-> o, columns |-> c, constraints |-> k] :
            o \in {"", DeclaredOutput},
            c \in SeqsUpTo(ColumnSpecs, MaxColumns),
            k \in SeqsUpTo(Constraints, MaxConstraints)}

OutputFiles ==
    {[kind |-> "absent"], [kind |-> "unreadable"]}
    \cup {[kind |-> "csv", df |-> df] : df \in DataFrames}

\* one call of validate_schema(submission_dir)
call_validate_schema ==
    /\ gen.pc = "schema_call"
    /\ LET r == validate_schema_checks(gen.schema, gen.output)
       IN  gen' = [gen EXCEPT
                     !.pc = IF r.raised THEN "schema_raised" ELSE "schema_returned",
                     !.ok = r.ok,
                     !.errors = r.errors]
    /\ UNCHANGED verifierVars

InitSchema ==
    /\ ws = Instance
    /\ pc = "idle"
    /\ loc = LocInit
    /\ result = NoResult
    /\ trace = <<>>
    /\ writes = 0
    /\ shellUsed = FALSE
    /\ testsAtStart = SynthesizedTests
    /\ proc = NoProcess
    /\ \E schema \in SchemaFiles : \E output \in OutputFiles :
         gen = [pc |-> "schema_call", schema |-> schema, output |-> output,
                ok |-> FALSE, errors |-> <<>>]

NextSchema == call_validate_schema

SpecSchema == InitSchema /\ [][NextSchema]_vars

---------------------------------------------------------------------------
(* Specification: the verifier's command line, main() around               *)
(* verify_submission                                                       *)

\* --json-out not given
NoJsonOut == <<>>

JsonOut == <<"result.json">>

NoPayload == [passed |-> FALSE]

\* VerificationResult.to_dict
to_dict(self) ==
    [passed |-> self.passed,
     run_pipeline_exit_zero |-> self.run_pipeline_exit_zero,
     tests_passed |-> self.tests_passed,
     tests_total |-> self.tests_total,
     schema_valid |-> self.schema_valid,
     deterministic |-> self.deterministic,
     test_files_untouched |-> self.test_files_untouched,
     details |-> self.details,
     partial_credit |->
        [tests_passed |-> self.tests_passed,
         tests_total |-> self.tests_total,
         schema_valid |-> self.schema_valid,
         deterministic |-> self.deterministic,
         test_files_untouched |-> self.test_files_untouched,
         run_pipeline_exit_zero |-> self.run_pipeline_exit_zero]]

\* as exit_status, whatever the verdict
exit_status_zero(passed) == 0

\* line 330: return 0 if result.passed else 1
exit_status(passed) == IF passed THEN 0 ELSE 1

\* the interpreter's exit status when an exception leaves main()
UncaughtExceptionStatus == 1

MainCall(json_out) ==
    [pc |-> "main", json_out |-> json_out, status |-> -1,
     printed |-> NoPayload, written |-> NoPayload]

\* lines 324-330, after verify_submission has returned; an exception raised
\* inside verify_submission leaves main() at line 324
main_exit ==
    /\ gen.pc = "main"
    /\ pc \in {"done", "raised"}
    /\ IF pc = "raised"
       THEN gen' = [gen EXCEPT !.pc = "exited", !.status = UncaughtExceptionStatus]
       ELSE LET payload == to_dict(result)
            IN  gen' = [gen EXCEPT
                          !.pc = "exited",
                          !.status = exit_status(result.passed),
                          !.printed = payload,
                          !.written = IF gen.json_out # NoJsonOut
                                      THEN payload ELSE NoPayload]
    /\ UNCHANGED verifierVars

MainInputs ==
    VerifyInputs \cup {[Instance EXCEPT !.hashes = MalformedHashesFile]}

InitMain ==
    /\ ws \in MainInputs
    /\ pc = "hash_pre"
    /\ loc = LocInit
    /\ result = NoResult
    /\ trace = <<>>
    /\ writes = MaxWrites
    /\ shellUsed = FALSE
    /\ testsAtStart = ws.tests
    /\ proc = NoProcess
    /\ gen \in {MainCall(NoJsonOut), MainCall(JsonOut)}

NextMain ==
    \/ NextVerify
    \/ main_exit

SpecMain == InitMain /\ [][NextMain]_vars

---------------------------------------------------------------------------
(* Specification: the run_command tool of PipelineDebuggerEnv on commands *)
(* that finish or outlast the timeout                                     *)

MinTimeout == 1
MaxTimeout == 120

\* line 243: max(1, min(timeout_seconds, 120))
clamp_timeout(timeout_seconds) ==
    LET capped == IF timeout_seconds < MaxTimeout THEN timeout_seconds
                  ELSE MaxTimeout
    IN  IF capped > MinTimeout THEN capped ELSE MinTimeout

\* captured output: text decoded by subprocess.run, or the raw bytes that
\* TimeoutExpired carries on POSIX, or None
Str(text) == [type |-> "str", text |-> text]
Bytes(text) == [type |-> "bytes", text |-> text]
None == [type |-> "None", text |-> ""]

\* x or ""
or_empty(x) == IF x.type = "None" \/ x.text = "" THEN Str("") ELSE x

\* subprocess.run(..., timeout=t) on a command that runs for `seconds` and
\* has written `stdout` by the time it ends or is killed
subprocess_run(command, timeout) ==
    IF command.seconds > timeout
    THEN [timed_out |-> TRUE,
          returncode |-> 0,
          stdout |-> IF command.stdout = "" THEN None ELSE Bytes(command.stdout)]
    ELSE [timed_out |-> FALSE,
          returncode |-> command.returncode,
          stdout |-> Str(command.stdout)]

NoToolResult == [exit_code |-> 0, stdout |-> "", stderr |-> ""]

\* PipelineDebuggerEnv.run_command
tool_run_command(command, timeout_seconds) ==
    LET timeout == clamp_timeout(timeout_seconds)
        done == subprocess_run(command, timeout)
    IN  IF done.timed_out
        THEN LET stdout == or_empty(done.stdout)
             IN  \* json.dumps raises TypeError on a value of type bytes
                 IF stdout.type = "bytes"
                 THEN [raised |-> TRUE, timeout |-> timeout,
                       payload |-> NoToolResult]
                 ELSE [raised |-> FALSE, timeout |-> timeout,
                       payload |-> [exit_code |-> -1, stdout |-> stdout.text,
                                    stderr |-> "timeout after"]]
        ELSE [raised |-> FALSE, timeout |-> timeout,
              payload |-> [exit_code |-> done.returncode,
                           stdout |-> done.stdout.text, stderr |-> ""]]

\* one call of run_command(command, timeout_seconds)
call_run_command ==
    /\ gen.pc = "tool_call"
    /\ LET r == tool_run_command(gen.command, gen.timeout_seconds)
       IN  gen' = [gen EXCEPT
                     !.pc = IF r.raised THEN "tool_raised" ELSE "tool_returned",
                     !.timeout = r.timeout,
                     !.payload = r.payload]
    /\ UNCHANGED verifierVars

InitTool ==
    /\ ws = Instance
    /\ pc = "idle"
    /\ loc = LocInit
    /\ result = NoResult
    /\ trace = <<>>
    /\ writes = 0
    /\ shellUsed = FALSE
    /\ testsAtStart = SynthesizedTests
    /\ proc = NoProcess
    /\ \E seconds \in {0, 1, 2, 30, 31, 120, 121, 500},
          returncode \in {0, 1, 3},
          stdout \in {"", "hello"},
          timeout_seconds \in {-5, 0, 1, 30, 120, 121, 500} :
         gen = [pc |-> "tool_call",
                command |-> [seconds |-> seconds, returncode |-> returncode,
                             stdout |-> stdout],
                timeout_seconds |-> timeout_seconds, timeout |-> 0,
                payload |-> NoToolResult]

NextTool == call_run_command

SpecTool == InitTool /\ [][NextTool]_vars

---------------------------------------------------------------------------
(* Specification: PipelineDebuggerEnv._build_dataset, as load_environment *)
(* calls it on an instances directory                                     *)

\* the entry names that occur, in the order sorted() gives them
EntryNames ==
    <<"README.md", "instance_001", "instance_002", "instance_010",
      "instance_notes.txt", "scratch">>

IsDir == [name \in {EntryNames[i] : i \in DOMAIN EntryNames} |->
            name \notin {"README.md", "instance_notes.txt"}]

\* name.startswith("instance_")
starts_with_instance(name) ==
    name \in {"instance_001", "instance_002", "instance_010", "instance_notes.txt"}

\* sorted(paths): the entries in ascending order of name
sorted_paths(paths) ==
    LET order == {i \in DOMAIN EntryNames : EntryNames[i] \in paths}
        nth(k) == CHOOSE i \in order :
                    Cardinality({j \in order : j < i}) = k - 1
    IN  [k \in 1..Cardinality(order) |-> EntryNames[nth(k)]]

\* as first_n, the limit ignored
first_n_all(instance_dirs, max_instances) == instance_dirs

\* lines 74-75: instance_dirs[:max_instances] if max_instances > 0
first_n(instance_dirs, max_instances) ==
    IF max_instances > 0
    THEN SubSeq(instance_dirs, 1,
                IF max_instances < Len(instance_dirs) THEN max_instances
                ELSE Len(instance_dirs))
    ELSE instance_dirs

\* _build_dataset on the entries of instances_dir
build_dataset(entries, max_instances) ==
    LET instance_dirs ==
            first_n(sorted_paths({name \in entries :
                                    IsDir[name] /\ starts_with_instance(name)}),
                    max_instances)
        rows == [k \in DOMAIN instance_dirs |->
                    [answer |-> "pipeline-fixed",
                     instance_id |-> instance_dirs[k]]]
    IN  IF rows = <<>>
        THEN [raised |-> TRUE, rows |-> <<>>]
        ELSE [raised |-> FALSE, rows |-> rows]

\* load_environment(instances_dir, max_instances)
load_environment ==
    /\ gen.pc = "load_call"
    /\ LET r == build_dataset(gen.entries, gen.max_instances)
       IN  gen' = [gen EXCEPT
                     !.pc = IF r.raised THEN "load_raised" ELSE "load_returned",
                     !.rows = r.rows]
    /\ UNCHANGED verifierVars

InitLoad ==
    /\ ws = Instance
    /\ pc = "idle"
    /\ loc = LocInit
    /\ result = NoResult
    /\ trace = <<>>
    /\ writes = 0
    /\ shellUsed = FALSE
    /\ testsAtStart = SynthesizedTests
    /\ proc = NoProcess
    /\ \E entries \in SUBSET {EntryNames[i] : i \in DOMAIN EntryNames} :
       \E max_instances \in {-1, 0, 1, 2, 3, 4} :
         gen = [pc |-> "load_call", entries |-> entries,
                max_instances |-> max_instances, rows |-> <<>>]

NextLoad == load_environment

SpecLoad == InitLoad /\ [][NextLoad]_vars

---------------------------------------------------------------------------
(* Specification: the baseline written for a tree of test files, compared *)
(* by the verifier with the tree it finds                                 *)

\* the trees of *.py files under tests/: per path a content or no file
TestTrees == [TestPaths -> TestContents \cup {NoFile}]

\* who wrote tests_hashes.json: generate.hash_test_files (keys relative to
\* the instance root) or hash_files on the tests directory, as
\* tests/test_verifier.py write_test_hashes does
baseline_of(writer, files) ==
    IF writer = "hash_test_files" THEN hash_test_files(files)
    ELSE hash_files(files)

\* the baseline is written at synthesis; later verify_submission hashes the
\* tree it finds and check_test_file_integrity compares the two
compare_with_baseline ==
    /\ gen.pc = "compare_call"
    /\ LET baseline == HashesFile(baseline_of(gen.writer, gen.synthesized))
           pre_hashes == hash_files(gen.found)
           r == check_test_file_integrity(baseline, pre_hashes, pre_hashes)
       IN  gen' = [gen EXCEPT !.pc = "compared",
                              !.matches_expected = r.matches_expected]
    /\ UNCHANGED verifierVars

InitCompare ==
    /\ ws = Instance
    /\ pc = "idle"
    /\ loc = LocInit
    /\ result = NoResult
    /\ trace = <<>>
    /\ writes = 0
    /\ shellUsed = FALSE
    /\ testsAtStart = SynthesizedTests
    /\ proc = NoProcess
    /\ \E writer \in {"hash_test_files", "hash_files"},
          synthesized \in TestTrees, found \in TestTrees :
         gen = [pc |-> "compare_call", writer |-> writer,
                synthesized |-> synthesized, found |-> found,
                matches_expected |-> FALSE]

NextCompare == compare_with_baseline

SpecCompare == InitCompare /\ [][NextCompare]_vars

---------------------------------------------------------------------------
(* Specification: the catalog applied to the files of the template, texts *)
(* as sequences of words                                                  *)

\* text.split(" "): the words of the texts of the catalog
words(text) ==
    CASE text = "JOIN_KEY = \"customer_id\"" ->
            <<"JOIN_KEY", "=", "\"customer_id\"">>
      [] text = "JOIN_KEY = \"cust_id\"" ->
            <<"JOIN_KEY", "=", "\"cust_id\"">>
      [] text = "amount = float(raw[\"amount\"])" ->
            <<"amount", "=", "float(raw[\"amount\"])">>
      [] text = "amount = int(float(raw[\"amount\"]))" ->
            <<"amount", "=", "int(float(raw[\"amount\"]))">>
      [] text = "merged = cleaned_df.merge(customers_df, how=JOIN_HOW, on=JOIN_KEY, sort=False)" ->
            <<"merged", "=", "cleaned_df.merge(customers_df,",
              "how=JOIN_HOW,", "on=JOIN_KEY,", "sort=False)">>
      [] text = "merged = cleaned_df.merge(customers_df, how=JOIN_HOW, left_on=\"order_id\", right_on=\"customer_id\", sort=False)" ->
            <<"merged", "=", "cleaned_df.merge(customers_df,",
              "how=JOIN_HOW,", "left_on=\"order_id\",",
              "right_on=\"customer_id\",", "sort=False)">>
      [] text = "merged[\"discount\"] = (merged[\"amount\"] * discount_rates).round(2)" ->
            <<"merged[\"discount\"]", "=", "(merged[\"amount\"]", "*",
              "discount_rates).round(2)">>
      [] text = "merged[\"discount\"] = (merged[\"amount\"] * 0.01).round(2)" ->
            <<"merged[\"discount\"]", "=", "(merged[\"amount\"]", "*",
              "0.01).round(2)">>
      [] text = "EXECUTE_TRANSFORM_BEFORE_LOAD = True" ->
            <<"EXECUTE_TRANSFORM_BEFORE_LOAD", "=", "True">>
      [] text = "EXECUTE_TRANSFORM_BEFORE_LOAD = False" ->
            <<"EXECUTE_TRANSFORM_BEFORE_LOAD", "=", "False">>
      [] text = "DROP_VALID_ROWS_BELOW = None" ->
            <<"DROP_VALID_ROWS_BELOW", "=", "None">>
      [] text = "DROP_VALID_ROWS_BELOW = 300.0" ->
            <<"DROP_VALID_ROWS_BELOW", "=", "300.0">>
      [] text = "ORDERS_DELIMITER = \",\"" ->
            <<"ORDERS_DELIMITER", "=", "\",\"">>
      [] text = "ORDERS_DELIMITER = \";\"" ->
            <<"ORDERS_DELIMITER", "=", "\";\"">>
      [] text = "CRASH_ON_BAD_ROW = False" ->
            <<"CRASH_ON_BAD_ROW", "=", "False">>
      [] text = "CRASH_ON_BAD_ROW = True" ->
            <<"CRASH_ON_BAD_ROW", "=", "True">>
      [] text = "OUTPUT_FILENAME = \"fact_orders.csv\"" ->
            <<"OUTPUT_FILENAME", "=", "\"fact_orders.csv\"">>
      [] text = "OUTPUT_FILENAME = \"fact_orders_final.csv\"" ->
            <<"OUTPUT_FILENAME", "=", "\"fact_orders_final.csv\"">>

NewLine == "\n"

\* instances/instance_001/pipeline/transform.py, lines 8-89:
\* the statements that name what the catalog edits
transform_py(crash_on_bad_row) ==
    <<"JOIN_KEY", "=", "\"customer_id\"", NewLine,
      "JOIN_HOW", "=", "\"left\"", NewLine,
      "DROP_VALID_ROWS_BELOW", "=", "None", NewLine,
      "CRASH_ON_BAD_ROW", "=", crash_on_bad_row, NewLine,
      "customer_id", "=", "int(raw[\"customer_id\"])", NewLine,
      "amount", "=", "float(raw[\"amount\"])", NewLine,
      "if", "amount", "<", "0:", NewLine,
      "if", "CRASH_ON_BAD_ROW:", NewLine,
      "if", "DROP_VALID_ROWS_BELOW", "is", "not", "None:", NewLine,
      "cleaned_df", "=", "cleaned_df[cleaned_df[\"amount\"]", ">=",
      "DROP_VALID_ROWS_BELOW]", NewLine,
      "merged", "=", "cleaned_df.merge(customers_df,", "how=JOIN_HOW,",
      "on=JOIN_KEY,", "sort=False)", NewLine,
      "discount_rates", "=",
      "merged[\"segment\"].map(SEGMENT_DISCOUNT_RATES).fillna(0.0)",
      NewLine,
      "merged[\"discount\"]", "=", "(merged[\"amount\"]", "*",
      "discount_rates).round(2)", NewLine,
      "merged[\"net_amount\"]", "=", "(merged[\"amount\"]", "-",
      "merged[\"discount\"]).round(2)", NewLine>>

\* instances/instance_002/pipeline/load.py, lines 8-20:
\* the statements that name what the catalog edits
load_py ==
    <<"OUTPUT_FILENAME", "=", "\"fact_orders.csv\"", NewLine,
      "REJECTED_FILENAME", "=", "\"rejected_rows.csv\"", NewLine,
      "output_dir", "/", "OUTPUT_FILENAME,", NewLine>>

\* instances/instance_006/pipeline/extract.py, lines 8-13:
\* the statements that name what the catalog edits
extract_py(orders_delimiter) ==
    <<"ORDERS_DELIMITER", "=", orders_delimiter, NewLine,
      "return", "pd.read_csv(data_dir", "/", "\"orders.csv\",",
      "sep=ORDERS_DELIMITER)", NewLine>>

\* instances/instance_006/run_pipeline.py, lines 10-20:
\* the statements that name what the catalog edits
run_pipeline_py ==
    <<"EXECUTE_TRANSFORM_BEFORE_LOAD", "=", "True", NewLine,
      "if", "EXECUTE_TRANSFORM_BEFORE_LOAD:", NewLine>>

\* the template: instance_001 before error_handling, instance_006 before
\* config_env
template_files_of_instance_001 ==
    [f \in {"pipeline/transform.py", "pipeline/load.py", "pipeline/extract.py",
            "run_pipeline.py"} |->
        CASE f = "pipeline/transform.py" -> transform_py("True")
          [] f = "pipeline/load.py" -> load_py
          [] f = "pipeline/extract.py" -> extract_py("\",\"")
          [] OTHER -> run_pipeline_py]

template_files ==
    [f \in {"pipeline/transform.py", "pipeline/load.py", "pipeline/extract.py",
            "run_pipeline.py"} |->
        CASE f = "pipeline/transform.py" -> transform_py("False")
          [] f = "pipeline/load.py" -> load_py
          [] f = "pipeline/extract.py" -> extract_py("\",\"")
          [] OTHER -> run_pipeline_py]

\* the places of a text where a part of it begins
occurrences(text, part) ==
    {i \in 1..(Len(text) - Len(part) + 1) :
        SubSeq(text, i, i + Len(part) - 1) = part}

\* text.replace(find, replace, 1) on words
replace_first_words(text, find, replace) ==
    LET at == occurrences(text, find)
    IN  IF at = {} THEN text
        ELSE LET first == CHOOSE i \in at : \A j \in at : i =< j
             IN  SubSeq(text, 1, first - 1) \o replace
                 \o SubSeq(text, first + Len(find), Len(text))

\* apply_mutations on the words of the files
RECURSIVE apply_mutations_to_words(_, _, _)
apply_mutations_to_words(files, mutation_names, applied) ==
    IF mutation_names = <<>>
    THEN [raised |-> FALSE, files |-> files, applied |-> applied]
    ELSE LET mutation == MUTATIONS[Head(mutation_names)]
             target == mutation.file_path
             text == files[target]
         IN  IF occurrences(text, words(mutation.find_text)) = {}
             THEN [raised |-> TRUE, files |-> files, applied |-> applied]
             ELSE apply_mutations_to_words(
                      [files EXCEPT ![target] =
                          replace_first_words(text, words(mutation.find_text),
                                              words(mutation.replace_text))],
                      Tail(mutation_names),
                      Append(applied, mutation.name))

\* the orders in which the names of a sample can be given
Orderings(sample) ==
    {order \in [1..Cardinality(sample) -> sample] :
        \A i, j \in DOMAIN order : order[i] = order[j] => i = j}

\* generate.py lines 81-85: a clone of the template, mutated
clone_and_apply ==
    /\ gen.pc = "catalog_call"
    /\ LET done == apply_mutations_to_words(gen.files, gen.mutation_names, <<>>)
       IN  gen' = [gen EXCEPT
                     !.pc = IF done.raised THEN "catalog_raised"
                            ELSE "catalog_applied",
                     !.files = done.files,
                     !.applied = done.applied]
    /\ UNCHANGED verifierVars

InitCatalog ==
    /\ ws = Instance
    /\ pc = "idle"
    /\ loc = LocInit
    /\ result = NoResult
    /\ trace = <<>>
    /\ writes = 0
    /\ shellUsed = FALSE
    /\ testsAtStart = SynthesizedTests
    /\ proc = NoProcess
    /\ \E roll \in Rolls :
       \E sample \in Samples(DOMAIN MUTATIONS, choose_mutation_count(roll)) :
       \E mutation_names \in Orderings(sample) :
         gen = [pc |-> "catalog_call", mutation_names |-> mutation_names,
                files |-> template_files, applied |-> <<>>]

NextCatalog == clone_and_apply

SpecCatalog == InitCatalog /\ [][NextCatalog]_vars

---------------------------------------------------------------------------
(* Specification: verify_submission on an instance directory with its     *)
(* provenance files, metadata.json beside tests_hashes.json               *)

NoMetadataFile == [kind |-> "absent", attempt |-> 0, bugs |-> <<>>]

\* metadata.json as generate_instances writes it (generate.py 91-112)
MetadataFile(attempt, bugs) == [kind |-> "json", attempt |-> attempt, bugs |-> bugs]

ProvenanceWorkspaces ==
    {[tests |-> w.tests, hashes |-> w.hashes, schema |-> w.schema,
      outputs |-> w.outputs, sites |-> w.sites, metadata |-> m] :
        w \in MainInputs,
        m \in {NoMetadataFile, MetadataFile(1, <<"wrong_output_path">>)}}

InitProvenance ==
    /\ ws \in ProvenanceWorkspaces
    /\ pc = "hash_pre"
    /\ loc = LocInit
    /\ result = NoResult
    /\ trace = <<>>
    /\ writes = MaxWrites
    /\ shellUsed = FALSE
    /\ testsAtStart = ws.tests
    /\ proc = NoProcess
    /\ gen = GenIdle

SpecProvenance == InitProvenance /\ [][NextVerify]_vars

---------------------------------------------------------------------------
(* Specification: the scoring functions of PipelineDebuggerEnv awaited on  *)
(* one rollout state, one after the other or gathered.  A coroutine runs   *)
(* without interruption up to its await of asyncio.to_thread and again     *)
(* from there to its return; verify_submission runs in a worker thread     *)

\* the functions of scoring_rubric
ScoringFunctions ==
    {"task_passed", "tests_pass_rate", "schema_valid", "deterministic",
     "test_files_untouched", "run_pipeline_exit_zero"}

\* "verification_result" not in state
NotInState == [passed |-> "absent"]

\* what a scoring function returns for the result it was given; the pass
\* rate is kept as the pair it divides
score(f, r) ==
    CASE f = "task_passed" -> IF r.passed THEN 1 ELSE 0
      [] f = "tests_pass_rate" ->
            IF r.tests_total = 0 THEN 0 ELSE <<r.tests_passed, r.tests_total>>
      [] f = "schema_valid" -> IF r.schema_valid THEN 1 ELSE 0
      [] f = "deterministic" -> IF r.deterministic THEN 1 ELSE 0
      [] f = "test_files_untouched" -> IF r.test_files_untouched THEN 1 ELSE 0
      [] f = "run_pipeline_exit_zero" ->
            IF r.run_pipeline_exit_zero THEN 1 ELSE 0

\* the guard of _verification_result: verify only when the state holds no
\* result yet
needs_verification(state) == state = NotInState

\* what verify_submission returns for the workspace of the rollout: the
\* project is the repairer's, and a run beside another run of the same
\* workspace shares its outputs/ directory
ThreadResult(tests_passed) ==
    [passed |-> tests_passed = 2,
     run_pipeline_exit_zero |-> TRUE,
     tests_passed |-> tests_passed,
     tests_total |-> 2,
     schema_valid |-> TRUE,
     deterministic |-> TRUE,
     test_files_untouched |-> TRUE]

\* a scoring function is awaited: _verification_result up to its await,
\* through its return when the state already holds a result
scoring_awaited(f) ==
    /\ gen.pc = "scoring"
    /\ gen.coro[f] = "not_awaited"
    /\ gen.gathered \/
         \A g \in ScoringFunctions : gen.coro[g] \in {"not_awaited", "returned"}
    /\ IF needs_verification(gen.state)
       THEN gen' = [gen EXCEPT !.coro[f] = "in_thread",
                               !.calls = @ + 1,
                               !.running = @ + 1]
       ELSE gen' = [gen EXCEPT !.coro[f] = "returned",
                               !.raw[f] = gen.state]
    /\ UNCHANGED verifierVars

\* the worker thread of asyncio.to_thread returns from verify_submission
to_thread_returns(f) ==
    /\ gen.pc = "scoring"
    /\ gen.coro[f] = "in_thread"
    /\ \E tests_passed \in {1, 2} :
         gen' = [gen EXCEPT !.coro[f] = "resumable",
                            !.result[f] = ThreadResult(tests_passed),
                            !.running = @ - 1]
    /\ UNCHANGED verifierVars

\* the coroutine resumes after its await: it stores the result of its own
\* thread in the state and returns the result rebuilt from the state
scoring_resumed(f) ==
    /\ gen.pc = "scoring"
    /\ gen.coro[f] = "resumable"
    /\ gen' = [gen EXCEPT !.coro[f] = "returned",
                          !.state = gen.result[f],
                          !.raw[f] = gen.result[f]]
    /\ UNCHANGED verifierVars

InitScore ==
    /\ ws = Instance
    /\ pc = "idle"
    /\ loc = LocInit
    /\ result = NoResult
    /\ trace = <<>>
    /\ writes = 0
    /\ shellUsed = FALSE
    /\ testsAtStart = SynthesizedTests
    /\ proc = NoProcess
    /\ \E gathered \in BOOLEAN :
         gen = [pc |-> "scoring", gathered |-> gathered,
                state |-> NotInState,
                coro |-> [f \in ScoringFunctions |-> "not_awaited"],
                result |-> [f \in ScoringFunctions |-> NotInState],
                raw |-> [f \in ScoringFunctions |-> NotInState],
                calls |-> 0, running |-> 0]

NextScore ==
    \/ \E f \in ScoringFunctions : scoring_awaited(f)
    \/ \E f \in ScoringFunctions : to_thread_returns(f)
    \/ \E f \in ScoringFunctions : scoring_resumed(f)

SpecScore == InitScore /\ [][NextScore]_vars

---------------------------------------------------------------------------
(* Specification: PipelineDebuggerEnv._resolve_path on the path arguments  *)
(* of the file tools.  A file-system path is the sequence of its segment   *)
(* names from the root directory, a segment name the sequence of the       *)
(* tokens it is spelt with, so that the text of a path is the sequence of  *)
(* its tokens and separators and one name can begin with another           *)

\* segments of a path argument
MaxParts == 3

DotDot == <<"..">>
Dot == <<".">>

\* tempfile.gettempdir()
TempDir == <<<<"tmp">>>>

\* the directory name tempfile.mkdtemp makes of prefix and random suffix
mkdtemp_name(instance_id, suffix) ==
    <<"pipeline-debugger-", instance_id, "-", suffix>>

WorkspaceName == <<"workspace">>

\* a name that begins with the name of the workspace directory
SiblingName == <<"workspace", "2">>

\* pathlib: root / rel_path, an absolute rel_path replacing root
joinpath(root, rel_path) ==
    IF rel_path.absolute THEN rel_path.parts ELSE root \o rel_path.parts

RECURSIVE resolve_from(_, _, _)
resolve_from(done, rest, links) ==
    IF rest = <<>> THEN done
    ELSE LET name == Head(rest)
             next ==
                 IF name = Dot THEN done
                 ELSE IF name = DotDot
                      THEN IF done = <<>> THEN done
                           ELSE SubSeq(done, 1, Len(done) - 1)
                      ELSE LET p == Append(done, name)
                           IN  IF p \in DOMAIN links THEN links[p] ELSE p
         IN  resolve_from(next, Tail(rest), links)

\* Path.resolve(): "." and ".." are taken out and a symbolic link is
\* replaced by its target, segment after segment
resolve(path, links) == resolve_from(<<>>, path, links)

RECURSIVE str_path(_)
\* str(path): the text of an absolute path
str_path(path) ==
    IF path = <<>> THEN <<>>
    ELSE <<"/">> \o Head(path) \o str_path(Tail(path))

\* str.startswith
startswith(text, prefix) ==
    /\ Len(prefix) <= Len(text)
    /\ SubSeq(text, 1, Len(prefix)) = prefix

\* Path.is_relative_to: segment by segment
is_relative_to(path, root) ==
    /\ Len(root) <= Len(path)
    /\ SubSeq(path, 1, Len(root)) = root

\* the test of _resolve_path on candidate and root
within_root(candidate, root) ==
    startswith(str_path(candidate), str_path(root))

\* PipelineDebuggerEnv._resolve_path
resolve_path(workspace_root, rel_path, links) ==
    LET root == resolve(workspace_root, links)
        candidate == resolve(joinpath(root, rel_path), links)
    IN  IF ~within_root(candidate, root)
        THEN [raised |-> TRUE, path |-> <<>>]
        ELSE [raised |-> FALSE, path |-> candidate]

\* the workspace of a rollout of instance_001
WorkspaceRoot ==
    TempDir \o <<mkdtemp_name("instance_001", "a"), WorkspaceName>>

\* the symbolic links of the file system: none, or one that the repairer's
\* shell made inside the workspace, leading out of it
LinksMade ==
    {<<>>, (WorkspaceRoot \o <<<<"link">>>>) :> (TempDir \o <<<<"elsewhere">>>>)}

call_resolve_path ==
    /\ gen.pc = "resolve_call"
    /\ LET r == resolve_path(gen.workspace_root, gen.rel_path, gen.links)
       IN  gen' = [gen EXCEPT
                     !.pc = IF r.raised THEN "resolve_raised"
                            ELSE "resolve_returned",
                     !.candidate = r.path]
    /\ UNCHANGED verifierVars

InitResolve ==
    /\ ws = Instance
    /\ pc = "idle"
    /\ loc = LocInit
    /\ result = NoResult
    /\ trace = <<>>
    /\ writes = 0
    /\ shellUsed = FALSE
    /\ testsAtStart = SynthesizedTests
    /\ proc = NoProcess
    /\ \E absolute \in BOOLEAN, links \in LinksMade,
          parts \in SeqsUpTo({DotDot, Dot, WorkspaceName, SiblingName,
                              <<"x">>, <<"link">>, <<"tmp">>,
                              mkdtemp_name("instance_001", "a")}, MaxParts) :
         gen = [pc |-> "resolve_call", workspace_root |-> WorkspaceRoot,
                rel_path |-> [absolute |-> absolute, parts |-> parts],
                links |-> links, candidate |-> <<>>]

NextResolve == call_resolve_path

SpecResolve == InitResolve /\ [][NextResolve]_vars

---------------------------------------------------------------------------
(* Specification: two rollouts of PipelineDebuggerEnv, each set up by      *)
(* setup_state and then calling the file tools list_files, read_file,      *)
(* write_file and replace_text.  The file system is the map from the path  *)
(* of each file to its text, a text the sequence of its statements, and    *)
(* the set of directories; it holds no symbolic links, copytree copying    *)
(* what a link leads to and the four tools making none                     *)

\* tool calls of one rollout
MaxToolCalls == 2

Rollouts == {1, 2}

\* self.instances_dir
InstancesDir == <<<<"repo">>, <<"instances">>>>

\* the rows of the dataset
InstanceIds == {"instance_001", "instance_002"}

\* info["instance_path"] of a row
instance_path(instance_id) == Append(InstancesDir, <<instance_id>>)

\* a state before setup_state
NoWorkspace == [workspace_parent |-> <<>>, workspace_root |-> <<>>]

\* workspace_root is not among the arguments of a call
NotGiven == <<>>

NoLinks == <<>>

\* the files and directories before any rollout: the instances
FilesAtStart ==
    [p \in {Append(instance_path(i), <<"run_pipeline.py">>) : i \in InstanceIds}
        |-> <<"broken">>]

DirsAtStart ==
    {TempDir, InstancesDir} \cup {instance_path(i) : i \in InstanceIds}

\* the directories above a path
parents(path) == {SubSeq(path, 1, n) : n \in 0..(Len(path) - 1)}

\* shutil.copytree(src, dst, dirs_exist_ok=True) on the files
copytree(files, src, dst) ==
    LET copied == {p \in DOMAIN files : is_relative_to(p, src)}
        to(p) == dst \o SubSeq(p, Len(src) + 1, Len(p))
    IN  [q \in DOMAIN files \cup {to(p) : p \in copied} |->
            IF \E p \in copied : to(p) = q
            THEN files[CHOOSE p \in copied : to(p) = q]
            ELSE files[q]]

\* tempfile.mkdtemp: the names it can return, none of them existing
mkdtemp(dirs, instance_id) ==
    {name \in {mkdtemp_name(instance_id, suffix) : suffix \in {"a", "b"}} :
        (TempDir \o <<name>>) \notin dirs}

\* PipelineDebuggerEnv.setup_state
setup_state(r) ==
    /\ gen.pc = "rollouts"
    /\ gen.state[r] = NoWorkspace
    /\ \E name \in mkdtemp(gen.dirs, gen.info[r]) :
         LET workspace_parent == TempDir \o <<name>>
             workspace_root == Append(workspace_parent, WorkspaceName)
         IN  gen' = [gen EXCEPT
                       !.state[r] = [workspace_parent |-> workspace_parent,
                                     workspace_root |-> workspace_root],
                       !.dirs = @ \cup {workspace_parent, workspace_root},
                       !.files = copytree(@, instance_path(gen.info[r]),
                                          workspace_root)]
    /\ UNCHANGED verifierVars

\* as update_tool_args, an argument of the call kept when it is given
update_tool_args_setdefault(tool_args, state) ==
    IF tool_args.workspace_root = NotGiven
    THEN [tool_args EXCEPT !.workspace_root = state.workspace_root]
    ELSE tool_args

\* PipelineDebuggerEnv.update_tool_args
update_tool_args(tool_args, state) ==
    [tool_args EXCEPT !.workspace_root = state.workspace_root]

\* list_files, read_file, write_file, replace_text: the file system after
\* the call; a call that raises or returns an error text leaves it as it is
file_tool(fs, tool, args) ==
    LET r == resolve_path(args.workspace_root, args.path, NoLinks)
        target == r.path
    IN  IF r.raised THEN fs
        ELSE CASE tool = "write_file" ->
                    IF target \in fs.dirs
                       \/ parents(target) \cap DOMAIN fs.files # {}
                    THEN fs
                    ELSE [dirs |-> fs.dirs \cup parents(target),
                          files |->
                            [p \in DOMAIN fs.files \cup {target} |->
                                IF p = target THEN args.content
                                ELSE fs.files[p]]]
               [] tool = "replace_text" ->
                    IF target \notin DOMAIN fs.files
                       \/ ~find_text_in(fs.files[target], args.old_text)
                    THEN fs
                    ELSE [fs EXCEPT
                            !.files[target] =
                                replace_first(@, args.old_text, args.new_text)]
               [] OTHER -> fs

\* os.path.relpath: the way from a directory to a path
relpath(path, start) ==
    LET common == CHOOSE n \in 0..Len(start) :
                    /\ n <= Len(path)
                    /\ SubSeq(path, 1, n) = SubSeq(start, 1, n)
                    /\ \A m \in (n + 1)..Len(start) :
                          m > Len(path) \/ SubSeq(path, 1, m) # SubSeq(start, 1, m)
    IN  [i \in 1..(Len(start) - common) |-> DotDot]
            \o SubSeq(path, common + 1, Len(path))

\* the path arguments a repairer tries: every file there is and a file in
\* a directory beside its workspace, by absolute path and by the way there
\* from the workspace root
PathArgs(files, root) ==
    LET aimed == DOMAIN files
                   \cup {SubSeq(root, 1, Len(root) - 1) \o <<SiblingName, <<"x">>>>}
    IN  {[absolute |-> TRUE, parts |-> p] : p \in aimed}
          \cup {[absolute |-> FALSE, parts |-> relpath(p, root)] : p \in aimed}

\* a tool call of a rollout: StatefulToolEnv passes the arguments of the
\* model through update_tool_args, then calls the tool
tool_call(r) ==
    /\ gen.pc = "rollouts"
    /\ gen.state[r] # NoWorkspace
    /\ gen.calls[r] < MaxToolCalls
    /\ \E tool \in {"list_files", "read_file", "write_file", "replace_text"},
          path \in PathArgs(gen.files, gen.state[r].workspace_root),
          given \in {NotGiven} \cup
                    {gen.state[s].workspace_root : s \in Rollouts \ {r}} :
         LET tool_args == [path |-> path, workspace_root |-> given,
                           content |-> <<"fixed">>,
                           old_text |-> "broken", new_text |-> "fixed"]
             fs == file_tool([dirs |-> gen.dirs, files |-> gen.files], tool,
                             update_tool_args(tool_args, gen.state[r]))
         IN  gen' = [gen EXCEPT !.calls[r] = @ + 1,
                                !.dirs = fs.dirs,
                                !.files = fs.files]
    /\ UNCHANGED verifierVars

InitRollouts ==
    /\ ws = Instance
    /\ pc = "idle"
    /\ loc = LocInit
    /\ result = NoResult
    /\ trace = <<>>
    /\ writes = 0
    /\ shellUsed = FALSE
    /\ testsAtStart = SynthesizedTests
    /\ proc = NoProcess
    /\ \E instance_id \in InstanceIds :
         gen = [pc |-> "rollouts",
                info |-> [r \in Rollouts |->
                            IF r = 1 THEN "instance_001" ELSE instance_id],
                state |-> [r \in Rollouts |-> NoWorkspace],
                calls |-> [r \in Rollouts |-> 0],
                dirs |-> DirsAtStart,
                files |-> FilesAtStart]

NextRollouts ==
    \/ \E r \in Rollouts : setup_state(r)
    \/ \E r \in Rollouts : tool_call(r)

SpecRollouts == InitRollouts /\ [][NextRollouts]_vars

---------------------------------------------------------------------------
(* Properties of verify_submission *)

Returned == pc = "done"

\* a baseline-listed test source differs, when verification begins, from what
\* the synthesizer hashed
EditedSinceSnapshot ==
    \E p \in TestPaths :
        SynthesizedTests[p] # NoFile /\ testsAtStart[p] # SynthesizedTests[p]

\* C2: a submission whose test sources were edited after tests_hashes.json was
\* written (the baseline file itself left as written) is reported with
\* test_files_untouched = false and therefore passed = false.
C2_TamperDetected ==
    (Returned /\ ws.hashes = Instance.hashes /\ EditedSinceSnapshot)
        => (~result.test_files_untouched /\ ~result.passed)

\* C3: passed is true exactly when all five checks hold: first run exit 0,
\* all tests pass (suite exit 0 and passed = total), test files untouched,
\* schema valid, deterministic.
C3_PassedIsConjunction ==
    Returned =>
        (result.passed <=>
            /\ result.run_pipeline_exit_zero
            /\ result.details.pytest_exit = 0
            /\ result.tests_passed = result.tests_total
            /\ result.test_files_untouched
            /\ result.schema_valid
            /\ result.deterministic)

C3_Witness == Returned /\ result.passed

\* C4: the verdict does not trust what the repairer wrote with the file
\* tools: also when tests_hashes.json itself has been rewritten, a test
\* source whose content at verification time differs from the synthesizer's
\* snapshot is never reported test_files_untouched = true.
C4_VerdictNotForgeable ==
    (Returned /\ ~shellUsed /\ ws.hashes # Instance.hashes /\ EditedSinceSnapshot)
        => ~result.test_files_untouched

\* C7: test_files_untouched is true exactly when the normalized before-map
\* equals the normalized after-map and, if tests_hashes.json exists, the
\* normalized before-map equals the normalized baseline.
C7_UntouchedIffBothComparisons ==
    Returned =>
        (result.test_files_untouched <=>
            /\ normalize_test_hashes(hash_files(testsAtStart))
                   = normalize_test_hashes(result.details.post_test_hashes)
            /\ ws.hashes.kind # "absent" =>
                   normalize_test_hashes(hash_files(testsAtStart))
                       = normalize_test_hashes(ws.hashes.items))

\* no baseline file: edited tests are untouched as long as the run left them
C7_Witness ==
    /\ Returned
    /\ ws.hashes.kind = "absent"
    /\ EditedSinceSnapshot
    /\ result.test_files_untouched

Taken(e) == \E i \in DOMAIN trace : trace[i] = e
Before(e, f) ==
    \E i, j \in DOMAIN trace : trace[i] = e /\ trace[j] = f /\ i < j

\* C8: the before-hash is taken before the first pipeline run, the collection
\* pass and the test run; the after-hash after all three have finished and
\* before schema validation and the second pipeline run.
C8_HashesBracketTheRuns ==
    /\ \A e \in {"run1", "collect", "pytest"} :
        /\ Taken(e) => Before("hash_pre", e)
        /\ Taken("hash_post") => Before(e, "hash_post")
    /\ \A e \in {"schema", "run2"} : Taken(e) => Before("hash_post", e)

\* the test run changed a test file between the two hashes, and it shows
C8_Witness ==
    /\ Returned
    /\ trace = verify_order
    /\ ~result.details.unchanged_during_verifier

\* C9: deterministic is true exactly when the second run exits 0, the hash map
\* of outputs/ taken just before it is non-empty and it equals the map taken
\* just after it; an empty map before gives false even if the run succeeds.
C9_DeterministicIff ==
    /\ [](Returned =>
            /\ result.deterministic <=>
                /\ result.details.run_pipeline_second_exit = 0
                /\ DOMAIN result.details.outputs_hash_before # {}
                /\ result.details.outputs_hash_before
                       = result.details.outputs_hash_after
            /\ DOMAIN result.details.outputs_hash_before = {}
                   => ~result.deterministic)
    /\ [][pc = "run2" =>
            /\ result'.details.outputs_hash_before = hash_outputs(ws.outputs)
            /\ result'.details.outputs_hash_after = hash_outputs(ws'.outputs)
            /\ result'.details.run_pipeline_second_exit = loc'.run2_exit]_vars

C9_Witness ==
    /\ Returned
    /\ result.details.run_pipeline_second_exit = 0
    /\ ~ws.outputs.exists
    /\ result.details.outputs_hash_before = result.details.outputs_hash_after
    /\ ~result.deterministic

\* C10: tests_total is the count of ids the collection pass lists (0 if it
\* exits non-zero), tests_passed the first count the test run's transcript
\* reports (0 if none), all_tests_pass = (suite exit 0 and passed = total),
\* and both counts are in the result also when not all tests pass.
C10_CountsRecomputedAndReported ==
    /\ pc = "pytest" =>
        loc.tests_total =
            IF proc.returncode = 0
            THEN Cardinality({i \in DOMAIN proc.stdout : proc.stdout[i] = "id"})
            ELSE 0
    /\ pc = "hash_post" =>
        /\ \/ /\ \A i \in DOMAIN proc.stdout : proc.stdout[i] < 0
              /\ loc.tests_passed = 0
           \/ \E i \in DOMAIN proc.stdout :
                /\ proc.stdout[i] >= 0
                /\ \A j \in 1..(i - 1) : proc.stdout[j] < 0
                /\ loc.tests_passed = proc.stdout[i]
        /\ loc.all_tests_pass <=>
              (proc.returncode = 0 /\ loc.tests_passed = loc.tests_total)
    /\ Returned =>
        /\ result.tests_total = loc.tests_total
        /\ result.tests_passed = loc.tests_passed
        /\ result.details.all_tests_pass = loc.all_tests_pass

\* partial credit: some but not all tests passed, both counts reported
C10_Witness ==
    /\ Returned
    /\ ~result.details.all_tests_pass
    /\ result.tests_passed > 0
    /\ result.tests_passed < result.tests_total

\* C1: every instance directory the synthesizer has accepted was accepted on
\* a probe that exited non-zero, the probe being the one run on that tree
\* in the attempt its metadata records, whatever the earlier attempts did
C1_AcceptedInstanceFailedItsProbe ==
    gen.pc # "idle" =>
        \A i \in 1..MaxInstances :
            gen.disk[i].state = "accepted" =>
                /\ gen.disk[i].probe.returncode # 0
                /\ gen.disk[i].probe.attempt = gen.disk[i].metadata.attempt
                /\ gen.disk[i].probe.sites = gen.disk[i].tree.sites

\* an instance accepted after earlier attempts were discarded
C1_Witness ==
    /\ gen.pc = "returned"
    /\ \E i \in 1..MaxInstances :
         /\ gen.disk[i].state = "accepted"
         /\ gen.disk[i].metadata.attempt > 1
         /\ gen.disk[i].probe.returncode # 0

\* C5: on the clean reference project (no mutation applied) with a baseline
\* written from its unmodified tests, verify_submission returns passed,
\* run_pipeline_exit_zero, schema_valid, deterministic and
\* test_files_untouched all true and tests_passed = tests_total.
C5_CleanTemplatePasses ==
    (Returned /\ ws.sites = {} /\ ws.hashes.kind = "dict")
        => /\ result.passed
           /\ result.run_pipeline_exit_zero
           /\ result.tests_passed = result.tests_total
           /\ result.schema_valid
           /\ result.deterministic
           /\ result.test_files_untouched

\* the clean project verified with the baseline test_verifier.py writes
C5_Witness ==
    /\ Returned
    /\ ws.sites = {}
    /\ ws.hashes = HashesFile(hash_files(SynthesizedTests))
    /\ testsAtStart = SynthesizedTests
    /\ result.passed
    /\ result.tests_total = Len(TestFunctions)
    /\ result.details.outputs_hash_before
           = hash_outputs(OutDir(("fact_orders.csv" :> "rows")
                                 @@ ("rejected_rows.csv" :> "rejects")))

\* C6: with only wrong_output_path applied the pipeline writes
\* fact_orders_final.csv; verify_submission returns passed = false,
\* schema_valid = false because the declared output file is missing, and
\* tests_passed < tests_total, although the first run exits 0.
C6_WrongOutputPathFails ==
    (Returned /\ ws.sites = {"wrong_output_path"})
        => /\ ~result.passed
           /\ ~result.schema_valid
           /\ result.details.schema_errors = <<"output file missing">>
           /\ result.tests_passed < result.tests_total
           /\ "fact_orders_final.csv" \in DOMAIN ws.outputs.files
           /\ DeclaredOutput \notin DOMAIN ws.outputs.files

C6_Witness ==
    /\ Returned
    /\ ws.sites = {"wrong_output_path"}
    /\ result.run_pipeline_exit_zero
    /\ ~result.schema_valid
    /\ result.tests_passed = 1
    /\ ~result.passed

\* C11: verify_submission never raises because the submission is broken: in
\* every workspace state the call goes on to return a VerificationResult.
C11_NeverRaises == pc # "raised"

\* C12: every process the verifier spawns is cut off by a timeout, so
\* verify_submission eventually returns even if a spawned process never exits.
C12_VerifierEventuallyReturns == <>(pc \in {"done", "raised"})

Exhausted == gen.pc = "raised" /\ gen.error = "exhausted"

\* C13: an index gets at most 50 apply-and-probe attempts; when the 50th
\* probe also exits zero generate_instances raises, no directory remains for
\* that index, no later index is attempted (their directories are as they
\* were, and the call makes no further step), and the instances accepted
\* for earlier indices stay on disk unchanged.
C13_RetryCeilingIsFatal ==
    /\ [](gen.pc \notin {"idle", "template_check"} =>
            /\ gen.attempt <= max_attempts
            /\ Exhausted =>
                /\ gen.attempt = max_attempts
                /\ gen.disk[gen.index].state = "absent"
                /\ \A j \in DOMAIN gen.disk :
                    /\ j > gen.index => gen.disk[j].state \in {"absent", "stale"}
                    /\ j < gen.index => gen.disk[j].state = "accepted")
    /\ [][/\ gen.pc = "raised" => gen' = gen
          /\ (gen.pc = "probe" /\ gen.attempt = max_attempts
                /\ gen'.disk[gen.index].state # "accepted") => Exhausted'
          /\ \A j \in DOMAIN gen.disk :
                gen.disk[j].state = "accepted" => gen'.disk[j] = gen.disk[j]]_vars

\* a later index exhausts its attempts after the first was accepted
C13_Witness ==
    /\ Exhausted
    /\ gen.index > 1
    /\ gen.attempt = max_attempts
    /\ gen.disk[1].state = "accepted"
    /\ gen.disk[gen.index].state = "absent"

\* C14: no instance is synthesized unless the template passed its own test
\* suite: when the template's test run exits non-zero generate_instances
\* raises at once, with output_dir as it was at the call (no instance
\* directory created, removed or mutated) and no random draw made.
C14_TemplateMustPassFirst ==
    /\ [](gen.pc \notin {"idle", "template_check"} =>
            (gen.template_exit # 0 =>
                /\ gen.pc = "raised"
                /\ gen.error = "template"
                /\ gen.index = 0
                /\ gen.attempt = 0
                /\ gen.chosen = <<>>))
    /\ [][(gen.pc = "template_check" /\ gen'.template_exit # 0)
            => gen'.disk = gen.disk]_vars

\* the template failed while a stale instance directory was in output_dir
C14_Witness ==
    /\ gen.pc = "raised"
    /\ gen.error = "template"
    /\ gen.template_exit # 0
    /\ gen.num_instances > 0
    /\ gen.disk[1] = StaleDir

\* the place of a catalog key in ascending key order
Rank(name) == CHOOSE i \in DOMAIN all_mutation_names : all_mutation_names[i] = name

\* between 1 and 3 catalog keys, strictly ascending (so pairwise distinct)
WellChosen(names) ==
    /\ Len(names) \in 1..3
    /\ \A i \in DOMAIN names : names[i] \in DOMAIN MUTATIONS
    /\ \A i, j \in DOMAIN names : i < j => Rank(names[i]) < Rank(names[j])

\* C17: in every attempt the selected names are 1 to 3 pairwise distinct
\* catalog keys in ascending order, and the bugs list written to
\* metadata.json for the attempt names exactly those, in that order.
C17_ChosenSortedAndRecorded ==
    gen.pc \notin {"idle", "template_check"} =>
        /\ gen.pc = "probe" =>
            /\ WellChosen(gen.chosen)
            /\ gen.disk[gen.index].metadata.bugs = gen.chosen
        /\ \A i \in DOMAIN gen.disk :
            gen.disk[i].state \in {"draft", "accepted"} =>
                WellChosen(gen.disk[i].metadata.bugs)

\* an attempt that drew three names
C17_Witness ==
    /\ gen.pc = "probe"
    /\ Len(gen.chosen) = 3
    /\ gen.disk[gen.index].metadata.bugs = gen.chosen
    /\ gen.disk[gen.index].metadata.attempt > 1

\* C18: when the probe of an attempt is about to run, the mutations are
\* applied and tests_hashes.json (the hashes of the tests as they are) and
\* metadata.json (with this attempt's number) are on disk; every accepted
\* instance holds both, its attempt number is that of the accepting attempt
\* and lies in 1..50, and it has no outputs/ directory.
C18_SnapshotBeforeProbe ==
    gen.pc \notin {"idle", "template_check"} =>
        /\ gen.pc = "probe" =>
            LET dir == gen.disk[gen.index]
            IN  /\ dir.tree.sites = {gen.chosen[i] : i \in DOMAIN gen.chosen}
                /\ dir.tree.hashes = HashesFile(hash_test_files(dir.tree.tests))
                /\ dir.metadata.attempt = gen.attempt
                /\ dir.metadata.instance_id = gen.index
        /\ \A i \in DOMAIN gen.disk :
            gen.disk[i].state = "accepted" =>
                /\ gen.disk[i].tree.hashes.kind = "dict"
                /\ gen.disk[i].metadata.attempt \in 1..max_attempts
                /\ gen.disk[i].metadata.attempt = gen.disk[i].probe.attempt
                /\ gen.disk[i].metadata.instance_id = i
                /\ ~gen.disk[i].tree.outputs.exists

\* an instance accepted on the last attempt allowed
C18_Witness ==
    /\ gen.pc = "returned"
    /\ gen.disk[1].state = "accepted"
    /\ gen.disk[1].metadata.attempt = max_attempts
    /\ gen.disk[1].tree.hashes.kind = "dict"
    /\ ~gen.disk[1].tree.outputs.exists

\* the positions of a file that apply_mutations changed
Changed(f) == {i \in DOMAIN gen.files0[f] : gen.files[f][i] # gen.files0[f][i]}

\* how often a name occurs among the first n names given
Occurrences(name, n) ==
    Cardinality({k \in 1..n : gen.mutation_names[k] = name})

\* the positions changed are, for each name, the leftmost occurrences of its
\* find_text in its target file, as many as the name was applied, each now
\* holding its replace_text; nothing else changed
FirstOccurrencesReplaced(n) ==
    \A f \in DOMAIN gen.files0 :
        /\ DOMAIN gen.files[f] = DOMAIN gen.files0[f]
        /\ \A i \in Changed(f) :
            \E name \in AppliedNames :
                /\ MUTATIONS[name].file_path = f
                /\ gen.files0[f][i] = MUTATIONS[name].find_text
                /\ gen.files[f][i] = MUTATIONS[name].replace_text
        /\ \A name \in AppliedNames :
            LET at == {i \in DOMAIN gen.files0[f] :
                          gen.files0[f][i] = MUTATIONS[name].find_text}
            IN  IF MUTATIONS[name].file_path # f THEN at \cap Changed(f) = {}
                ELSE /\ Cardinality(at \cap Changed(f)) = Occurrences(name, n)
                     /\ \A i \in at \cap Changed(f) :
                            \A j \in at : j < i => j \in Changed(f)

\* C15: apply_mutations takes the names in the order given; each replaces
\* only the first occurrence of its find_text in its target file, later
\* occurrences and all other files stay as they were, and the descriptors
\* come back in the order of the names.
C15_FirstOccurrenceInOrder ==
    gen.pc = "apply_returned" =>
        /\ FirstOccurrencesReplaced(Len(gen.mutation_names))
        /\ gen.applied = [k \in DOMAIN gen.mutation_names |->
                              MUTATIONS[gen.mutation_names[k]]]

\* one name applied to a file that holds its find_text twice: the second
\* occurrence is still there
C15_Witness ==
    /\ gen.pc = "apply_returned"
    /\ gen.mutation_names = <<"wrong_output_path">>
    /\ Cardinality(Changed("pipeline/load.py")) = 1
    /\ find_text_in(gen.files["pipeline/load.py"],
                    MUTATIONS["wrong_output_path"].find_text)
    /\ gen.files["run_pipeline.py"] = <<MUTATIONS["schema_drift"].find_text>>

\* C16: apply_mutations raises at the first name whose find_text is not in
\* the current text of its target file: that file is not written, no later
\* name is applied, and the tree is what applying exactly the names before
\* it gives (nothing is rolled back); it returns only if no name met that.
C16_MismatchStopsWithoutRollback ==
    /\ gen.pc = "apply_raised" =>
        /\ Len(gen.applied) < Len(gen.mutation_names)
        /\ LET n == Len(gen.applied)
               failing == MUTATIONS[gen.mutation_names[n + 1]]
               before == apply_mutations_to_files(
                             gen.files0, SubSeq(gen.mutation_names, 1, n), <<>>)
           IN  /\ ~\E i \in DOMAIN gen.files[failing.file_path] :
                      gen.files[failing.file_path][i] = failing.find_text
               /\ ~before.raised
               /\ before.files = gen.files
               /\ gen.applied = [k \in 1..n |-> MUTATIONS[gen.mutation_names[k]]]
               /\ FirstOccurrencesReplaced(n)
    /\ gen.pc = "apply_returned" =>
        \A name \in AppliedNames :
            Occurrences(name, Len(gen.mutation_names)) =<
                Cardinality({i \in DOMAIN gen.files0[MUTATIONS[name].file_path] :
                    gen.files0[MUTATIONS[name].file_path][i] =
                        MUTATIONS[name].find_text})

\* the second name fails after the first was applied, and the first one's
\* edit is still in the tree
C16_Witness ==
    /\ gen.pc = "apply_raised"
    /\ Len(gen.applied) = 1
    /\ Len(gen.mutation_names) = 2
    /\ gen.files # gen.files0

\* C19: without expected_schema.json validate_schema returns ok = false
\* with exactly one error and checks nothing else; without the declared
\* output file it likewise returns exactly one error, a different one.
C19_MissingFileIsOneError ==
    /\ (gen.pc # "schema_call" /\ gen.schema.kind = "absent") =>
        /\ gen.pc = "schema_returned"
        /\ ~gen.ok
        /\ Len(gen.errors) = 1
        /\ gen.errors[1].kind = "expected_schema.json is missing"
    /\ (/\ gen.pc # "schema_call"
        /\ gen.schema.kind = "json"
        /\ gen.schema.output_file # ""
        /\ gen.output.kind = "absent") =>
        /\ gen.pc = "schema_returned"
        /\ ~gen.ok
        /\ Len(gen.errors) = 1
        /\ gen.errors[1].kind = "output file missing"
        /\ gen.errors[1].column = gen.schema.output_file

\* no schema file beside an output file that can be read
C19_Witness ==
    /\ gen.pc = "schema_returned"
    /\ gen.schema.kind = "absent"
    /\ gen.output.kind = "csv"
    /\ gen.output.df = <<>>
    /\ Len(gen.errors) = 1

\* C19, its second case: a schema with columns and constraints whose
\* declared output file is not there
C19_WitnessOutputMissing ==
    /\ gen.pc = "schema_returned"
    /\ gen.schema.kind = "json"
    /\ Len(gen.schema.columns) = 2
    /\ Len(gen.schema.constraints) = 2
    /\ gen.output.kind = "absent"
    /\ Len(gen.errors) = 1

\* how many of the errors returned are of a kind, about a column
ErrorCount(kind, column) ==
    Cardinality({i \in DOMAIN gen.errors :
        gen.errors[i].kind = kind /\ gen.errors[i].column = column})

\* how many entries of a sequence of the schema file meet a condition
HowMany(entries, Violated(_)) ==
    Cardinality({k \in DOMAIN entries : Violated(entries[k])})

C21_ExitStatusIsVerdict ==
    gen.pc = "exited" =>
        /\ gen.status = 0 <=> (Returned /\ result.passed)
        /\ gen.status \in {0, 1}
        /\ Returned =>
            /\ gen.printed.passed = result.passed
            /\ \A f \in DOMAIN gen.printed.partial_credit :
                 gen.printed.partial_credit[f] = result[f]
            /\ DOMAIN gen.printed.partial_credit =
                 {"tests_passed", "tests_total", "schema_valid", "deterministic",
                  "test_files_untouched", "run_pipeline_exit_zero"}
            /\ gen.json_out # NoJsonOut => gen.written = gen.printed

\* a failed verification with some tests passing, JSON file requested
C21_Witness ==
    /\ gen.pc = "exited"
    /\ gen.status = 1
    /\ Returned
    /\ gen.json_out = JsonOut
    /\ gen.written.partial_credit.tests_passed > 0
    /\ ~gen.written.passed

\* C21, the passing side: status 0 without --json-out
C21_WitnessPassed ==
    /\ gen.pc = "exited"
    /\ gen.status = 0
    /\ gen.json_out = NoJsonOut
    /\ gen.printed.passed

\* C22: the run_command tool runs the command under the requested timeout
\* clamped to 1..120 seconds; a command that outlasts it gives a result with
\* exit_code -1 and a stderr naming the timeout, no exception reaching the
\* caller; a command that finishes gives its own exit code.
C22_TimeoutIsSyntheticResult ==
    gen.pc \in {"tool_returned", "tool_raised"} =>
        /\ gen.timeout \in MinTimeout..MaxTimeout
        /\ gen.timeout_seconds \in MinTimeout..MaxTimeout =>
             gen.timeout = gen.timeout_seconds
        /\ gen.pc = "tool_returned"
        /\ IF gen.command.seconds > gen.timeout
           THEN gen.payload.exit_code = -1 /\ gen.payload.stderr = "timeout after"
           ELSE gen.payload.exit_code = gen.command.returncode

\* the instance_* directories among the entries of the call
InstanceDirs ==
    {name \in gen.entries :
        name \in {"instance_001", "instance_002", "instance_010"}}

\* how many instance directories precede one in name order
Preceding(name) ==
    Cardinality({other \in InstanceDirs :
        \E i, j \in DOMAIN EntryNames :
            EntryNames[i] = other /\ EntryNames[j] = name /\ i < j})

\* C23: load_environment with max_instances = n > 0 builds a dataset of
\* min(n, number of instance_* directories) rows, the first n directories in
\* name order; with max_instances <= 0 it takes them all; it raises when
\* there is no instance directory.
C23_FirstInstancesInNameOrder ==
    gen.pc \in {"load_returned", "load_raised"} =>
        LET n == gen.max_instances
            limit == IF n > 0 /\ n < Cardinality(InstanceDirs) THEN n
                     ELSE Cardinality(InstanceDirs)
        IN  /\ gen.pc = "load_raised" <=> InstanceDirs = {}
            /\ Len(gen.rows) = limit
            /\ \A name \in InstanceDirs :
                 Preceding(name) < limit =>
                    gen.rows[Preceding(name) + 1].instance_id = name

\* three instance directories beside other entries, two rows asked for
C23_Witness ==
    /\ gen.pc = "load_returned"
    /\ Cardinality(InstanceDirs) = 3
    /\ "instance_notes.txt" \in gen.entries
    /\ "scratch" \in gen.entries
    /\ gen.max_instances = 2
    /\ Len(gen.rows) = 2

\* C24: every call of verify_submission performs its checks in one fixed
\* sequence whatever the earlier ones gave: pipeline run, test collection,
\* test run, comparison of the test-file hashes, schema validation, second
\* pipeline run; the entry point is run exactly twice, the second time also
\* after a failed first run, failed tests or a failed schema check.
C24_AllChecksInFixedSequence ==
    /\ \A i \in DOMAIN trace : trace[i] = verify_order[i]
    /\ pc \in {"done", "raised"} =>
        /\ trace = verify_order
        /\ Cardinality({i \in DOMAIN trace : trace[i] \in {"run1", "run2"}}) = 2

\* C25: the comparison of the normalized hash maps succeeds only if both
\* maps stand for the same test files with the same digest each; two files
\* of one map never share a normalized key, so a *.py file added, removed or
\* modified under tests/ since the baseline makes the comparison fail.
C25_ComparisonSeesEveryFile ==
    (gen.pc = "compared" /\ gen.matches_expected) =>
        \A p \in TestPaths : gen.found[p] = gen.synthesized[p]

\* C26: for an instance whose test files are as they were at synthesis, the
\* baseline the synthesizer wrote (keys relative to the instance root) and
\* the verifier's map (keys relative to tests/) are equal after
\* normalization, so matches_expected is true; likewise for a baseline
\* written relative to the tests directory.
C26_UnchangedTestsMatchBaseline ==
    (gen.pc = "compared" /\ gen.found = gen.synthesized) => gen.matches_expected

\* C27: a rejected attempt leaves nothing behind: after a probe that exits
\* zero the draft directory is gone and the next attempt starts from a
\* fresh clone of the template, so in every accepted instance the mutated
\* sites of the tree are exactly the mutations its metadata.json lists, and
\* its attempt number is 1 plus the number of rejected attempts for its
\* index.
C27_RejectedAttemptLeavesNothing ==
    gen.pc \notin {"idle", "template_check"} =>
        /\ gen.pc = "attempt" => gen.disk[gen.index] = NoDir
        /\ \A i \in DOMAIN gen.disk :
            gen.disk[i].state = "accepted" =>
                /\ gen.disk[i].tree.sites =
                     {gen.disk[i].metadata.bugs[k] :
                        k \in DOMAIN gen.disk[i].metadata.bugs}
                /\ gen.disk[i].metadata.attempt = 1 + gen.rejected[i]

\* an instance accepted on its third attempt, with two mutations
C27_Witness ==
    /\ gen.pc = "returned"
    /\ gen.disk[1].state = "accepted"
    /\ gen.rejected[1] = 2
    /\ gen.disk[1].metadata.attempt = 3
    /\ Cardinality(gen.disk[1].tree.sites) = 2

\* C29: every selection of 1 to 3 distinct catalog names, applied in
\* sorted order to a clean clone of the template, applies without a
\* mismatch, several mutations of one file included: no replacement removes
\* or creates another entry's find_text, and the tree that results does not
\* depend on the order of application.
C29_CatalogEntriesIndependent ==
    gen.pc \in {"catalog_applied", "catalog_raised"} =>
        LET chosen == {gen.mutation_names[k] : k \in DOMAIN gen.mutation_names}
            in_sorted_order ==
                apply_mutations_to_words(template_files, sorted_names(chosen), <<>>)
        IN  /\ gen.pc = "catalog_applied"
            /\ ~in_sorted_order.raised
            /\ gen.files = in_sorted_order.files
            /\ \A name \in DOMAIN MUTATIONS :
                 LET text == gen.files[MUTATIONS[name].file_path]
                     found == occurrences(text, words(MUTATIONS[name].find_text))
                     replaced == occurrences(text, words(MUTATIONS[name].replace_text))
                 IN  IF name \in chosen
                     THEN found = {} /\ Cardinality(replaced) = 1
                     ELSE Cardinality(found) = 1 /\ replaced = {}

\* three mutations of pipeline/transform.py, applied in an order that is
\* not the sorted one
C29_Witness ==
    /\ gen.pc = "catalog_applied"
    /\ gen.mutation_names = <<"type_coercion", "aggregation", "join_logic">>
    /\ gen.files["pipeline/transform.py"] # template_files["pipeline/transform.py"]
    /\ gen.files["pipeline/load.py"] = template_files["pipeline/load.py"]

\* C28: a mismatch error of the applier inside an attempt is never retried:
\* generate_instances propagates it at once, makes no further attempt for
\* the index and starts no later index.
C28_MismatchIsNotRetried ==
    /\ [][(gen.pc = "attempt" /\ gen'.error = "mismatch") =>
            /\ gen'.pc = "raised"
            /\ gen'.index = gen.index
            /\ gen'.attempt = gen.attempt
            /\ gen'.rejected = gen.rejected
            /\ \A i \in DOMAIN gen.disk : i # gen.index => gen'.disk[i] = gen.disk[i]]_vars
    /\ [][gen.pc = "raised" => gen' = gen]_vars
    /\ [](gen.pc = "raised" /\ gen.error = "mismatch" =>
            \A i \in DOMAIN gen.disk :
                i > gen.index =>
                    gen.disk[i].state \in {"absent", "stale"} /\ gen.rejected[i] = 0)

\* the mismatch comes in the second attempt for the second index, after the
\* first name of the attempt was applied; the first instance stands
C28_Witness ==
    /\ gen.pc = "raised"
    /\ gen.error = "mismatch"
    /\ gen.index = 2
    /\ gen.attempt = 2
    /\ gen.num_instances = 2
    /\ gen.chosen = <<"config_env", "wrong_output_path">>
    /\ gen.disk[2].tree.sites = {"config_env", "wrong_output_path"}
    /\ gen.disk[1].state = "accepted"

\* C30: verify_submission never writes, regenerates or deletes
\* metadata.json or tests_hashes.json: in a call whose spawned processes
\* leave them alone both files are, after every step, what they were
\* before it.
C30_ProvenanceFilesReadOnly ==
    [][ws'.hashes = ws.hashes /\ ws'.metadata = ws.metadata]_vars

\* a call that returned on an instance without baseline whose pipeline
\* runs wrote outputs/: no baseline has appeared, metadata.json is there
C30_Witness ==
    /\ Returned
    /\ ws.outputs.exists
    /\ result.deterministic
    /\ ws.hashes.kind = "absent"
    /\ ws.metadata = MetadataFile(1, <<"wrong_output_path">>)

\* C31: for one rollout state verify_submission is executed at most once,
\* however many of the six scoring functions are awaited and in whichever
\* interleaving; no two verification runs are on the workspace at the same
\* time, and all scoring functions report from the same result.
C31_VerifiedOncePerState ==
    /\ gen.calls <= 1
    /\ gen.running <= 1
    /\ \A f, g \in ScoringFunctions :
          (gen.coro[f] = "returned" /\ gen.coro[g] = "returned")
              => (gen.raw[f] = gen.raw[g]
                  /\ score(f, gen.raw[f]) = score(f, gen.raw[g]))

\* C31 where the scoring functions are awaited one after the other
C31_VerifiedOnceWhenSequential ==
    ~gen.gathered => C31_VerifiedOncePerState

\* C33: for every path argument _resolve_path either returns the workspace
\* root or a path inside it, or raises; it never returns a path outside
\* the root, such as one in a sibling directory whose name begins with the
\* root's name.
C33_ResolvedPathInsideRoot ==
    gen.pc = "resolve_returned"
        => is_relative_to(gen.candidate, resolve(gen.workspace_root, gen.links))

\* C33 for the paths that do not lead into a directory beside the workspace
\* whose name begins with "workspace"
C33_InsideRootButForSiblings ==
    (gen.pc = "resolve_returned" /\ ~is_relative_to(gen.candidate, WorkspaceRoot))
        => /\ Len(gen.candidate) >= Len(WorkspaceRoot)
           /\ startswith(gen.candidate[Len(WorkspaceRoot)], WorkspaceName)
           /\ SubSeq(gen.candidate, 1, Len(WorkspaceRoot) - 1)
                = SubSeq(WorkspaceRoot, 1, Len(WorkspaceRoot) - 1)

\* the files at and below a directory
FilesUnder(files, dir) ==
    [p \in {q \in DOMAIN files : is_relative_to(q, dir)} |-> files[p]]

\* C32: setup_state clones the instance into a freshly created directory
\* that no other rollout uses, also for two rollouts of the same instance,
\* and no call of list_files, read_file, write_file or replace_text in one
\* rollout changes a file of the source instances or of another rollout's
\* workspace.
C32_RolloutsIsolated ==
    [][\A r \in Rollouts :
         /\ (gen.state[r] = NoWorkspace /\ gen'.state[r] # NoWorkspace)
              => /\ gen'.state[r].workspace_parent \notin gen.dirs
                 /\ DOMAIN FilesUnder(gen.files,
                                       gen'.state[r].workspace_parent) = {}
                 /\ \A s \in Rollouts \ {r} :
                      gen.state[s] # NoWorkspace
                        => /\ gen.state[s].workspace_parent
                                 # gen'.state[r].workspace_parent
                           /\ ~is_relative_to(gen'.state[r].workspace_root,
                                              gen.state[s].workspace_root)
                           /\ ~is_relative_to(gen.state[s].workspace_root,
                                              gen'.state[r].workspace_root)
                 /\ FilesUnder(gen'.files, InstancesDir)
                      = FilesUnder(gen.files, InstancesDir)
         /\ gen'.calls[r] # gen.calls[r]
              => /\ FilesUnder(gen'.files, InstancesDir)
                      = FilesUnder(gen.files, InstancesDir)
                 /\ \A s \in Rollouts \ {r} :
                      gen.state[s] # NoWorkspace
                        => FilesUnder(gen'.files, gen.state[s].workspace_root)
                             = FilesUnder(gen.files, gen.state[s].workspace_root)
      ]_vars

\* two rollouts of the same instance, the first has rewritten its file and
\* written beside its workspace: the instance and the second workspace
\* hold the file as it was
C32_Witness ==
    /\ gen.info[1] = gen.info[2]
    /\ gen.state[1] # NoWorkspace
    /\ gen.state[2] # NoWorkspace
    /\ gen.calls[1] = 2
    /\ gen.files[Append(gen.state[1].workspace_root, <<"run_pipeline.py">>)]
         = <<"fixed">>
    /\ (gen.state[1].workspace_parent \o <<SiblingName, <<"x">>>>)
         \in DOMAIN gen.files
    /\ gen.files[Append(gen.state[2].workspace_root, <<"run_pipeline.py">>)]
         = <<"broken">>
    /\ gen.files[Append(instance_path(gen.info[1]), <<"run_pipeline.py">>)]
         = <<"broken">>

====
